---------------------------- MODULE Spec2Model ----------------------------
(***************************************************************************)
(* A model of pygatt's BGAPI backend (bluetooth_adapter/backends/bgapi/    *)
(* bgapi.py): the receiver thread (_recv_packets), the rendezvous queue    *)
(* and the wait loop (_process_packets_until), the packet handlers, and    *)
(* the blocking operations built on them.                                  *)
(*                                                                         *)
(* Two execution contexts are modelled.  The caller runs one public        *)
(* operation at a time; an operation is cut at its waits, so one caller    *)
(* step runs the code from one wait's return to the next wait (or to the   *)
(* operation's return or raise), and one step of a wait pops one packet    *)
(* and runs its handler.  The receiver thread completes a packet, copies   *)
(* the callback registry under the lock and routes the packet.             *)
(*                                                                         *)
(* Time is counted in ticks of half a queue polling interval and passes    *)
(* only while the caller is blocked in a timed wait on an empty queue:     *)
(* computation is taken to be instantaneous.                               *)
(***************************************************************************)
EXTENDS Integers, Sequences, FiniteSets, TLC

(***************************************************************************)
(* Bounds of the model.                                                    *)
(***************************************************************************)
MaxPackets == 4      \* packets the receiver completes in one behaviour
MaxCalls == 2        \* public operations the caller starts in one behaviour
MaxTimeout == 3      \* largest connect timeout, in ticks
MaxEvents == 6       \* events handed to the handlers in one behaviour
MaxScans == 3        \* scan responses handed to the handler in one behaviour

(***************************************************************************)
(* Program constants.                                                      *)
(***************************************************************************)
PollInterval == 2    \* Queue.get(block=True, timeout=0.1): 0.1 s, in ticks
num_attempts == 3    \* get_rssi: "Try a maximum of 3 times"
RssiSentinel == 25   \* get_rssi: the spurious reading that is retried

\* constants.ConnectionStatusFlag (the module's connection status bitmask)
FlagConnected == 1
FlagEncrypted == 2

None == "None"

(***************************************************************************)
(* Packets: what BGLib.decode_packet returns, a packet type and the args   *)
(* the handlers read.                                                      *)
(***************************************************************************)
Rsp(kind, result) == [kind |-> kind, result |-> result]

RspRssi(rssi) == [kind |-> "ble_rsp_connection_get_rssi", rssi |-> rssi]

RspGetBonds(bonds) == [kind |-> "ble_rsp_sm_get_bonds", bonds |-> bonds]

RspSetBondableMode == [kind |-> "ble_rsp_sm_set_bondable_mode"]

EvtAttributeValue(atthandle, value) ==
    [kind |-> "ble_evt_attclient_attribute_value",
     atthandle |-> atthandle, value |-> value]

EvtFindInformationFound(chrhandle, uuid) ==
    [kind |-> "ble_evt_attclient_find_information_found",
     chrhandle |-> chrhandle, uuid |-> uuid]

EvtProcedureCompleted(result) ==
    [kind |-> "ble_evt_attclient_procedure_completed", result |-> result]

EvtConnectionStatus(connection, flags) ==
    [kind |-> "ble_evt_connection_status",
     connection |-> connection, flags |-> flags]

EvtDisconnected(reason) ==
    [kind |-> "ble_evt_connection_disconnected", reason |-> reason]

EvtScanResponse(rssi, packet_type, sender, data) ==
    [kind |-> "ble_evt_gap_scan_response", rssi |-> rssi,
     packet_type |-> packet_type, sender |-> sender, data |-> data]

EvtBondStatus(bond) == [kind |-> "ble_evt_sm_bond_status", bond |-> bond]

EvtBondingFail(result) == [kind |-> "ble_evt_sm_bonding_fail", result |-> result]

\* a packet type with no handler of its own (_generic_handler)
EvtOther == [kind |-> "ble_evt_system_boot"]

\* the packet types whose handler stores args['result'] in _response_return
ResultResponses ==
    {"ble_rsp_attclient_attribute_write", "ble_rsp_attclient_find_information",
     "ble_rsp_attclient_read_by_handle", "ble_rsp_connection_disconnect",
     "ble_rsp_gap_connect_direct", "ble_rsp_gap_discover",
     "ble_rsp_gap_end_procedure", "ble_rsp_gap_set_mode",
     "ble_rsp_gap_set_scan_parameters", "ble_rsp_sm_delete_bonding",
     "ble_rsp_sm_encrypt_start"}

(***************************************************************************)
(* UUID classes: the branch of _ble_evt_attclient_find_information_found   *)
(* a UUID takes (its length and the gatt lookup table that holds it).      *)
(***************************************************************************)
Uuid128 == {"custom_128"}
UuidAttributeType ==
    {"primary_service", "secondary_service", "characteristic", "include"}
UuidCharacteristicType == {"device_name"}
UuidDescriptorType ==
    {"client_characteristic_configuration", "characteristic_user_description"}
UuidUnrecognized == {"unrecognized_16"}

VARIABLES
    st,               \* the backend's unlocked state and flags (self._xxx)
    callbacks,        \* self._callbacks: attribute handle -> callback
    lock,             \* self._lock: "free", or the context that holds it
    recvr_queue,      \* self._recvr_queue
    callback_threads, \* the callback threads started: target, args, and the
                      \* packet each was started for
    rpc,              \* the receiver thread's position
    rpacket,          \* the receiver's local: the packet just completed
    rcallbacks,       \* the receiver's local copy of self._callbacks
    call,             \* the public operation in progress (or the last one)
    pc,               \* the caller's position: idle, in its k-th wait, or
                      \* at the lock of subscribe
    outcome,          \* "running", "ok" or the exception the operation raised
    ret,              \* the value the last operation returned
    sent,             \* the commands the operation has sent so far
    handled,          \* the packets popped by the waits so far, each with
                      \* the call and the wait that popped it
    returned,         \* the waits of the operation that have returned
    wstage,           \* a timed wait's position in its loop: "check" | "get"
    elapsed,          \* ticks since a timed wait took start_time
    polled,           \* ticks the current Queue.get has blocked
    nrecv,            \* packets completed by the receiver so far
    ncalls,           \* operations started so far
    ser,              \* self._ser: "None", "open", or "closed" (closed and
                      \* still referenced)
    recvr_thread_stop,     \* self._recvr_thread_stop is set
    recvr_thread_is_done,  \* self._recvr_thread_is_done is set
    callbacks_returned,    \* the callback threads whose target has returned,
                           \* by the seq of their packet
    lib_buffer,       \* self._lib's buffer: the bytes parse_byte has kept
    ser_in,           \* the bytes written to the serial line and not yet read
    original,         \* the packet the module encoded last
    at_call           \* history: the packets in the queue and the connection
                      \* flags when the current operation was called

vars == <<st, callbacks, lock, recvr_queue, callback_threads, rpc, rpacket,
          rcallbacks, call, pc, outcome, ret, sent, handled, returned,
          wstage, elapsed, polled, nrecv, ncalls, ser, recvr_thread_stop,
          recvr_thread_is_done, callbacks_returned, lib_buffer, ser_in,
          original, at_call>>

recvr_vars == <<rpc, rpacket, rcallbacks, nrecv>>
caller_vars == <<call, pc, outcome, ret, sent, handled, returned, ncalls>>
timer_vars == <<wstage, elapsed, polled>>
codec_vars == <<lib_buffer, ser_in, original>>
thread_vars == <<ser, recvr_thread_stop, recvr_thread_is_done,
                 callbacks_returned, codec_vars, at_call>>

(***************************************************************************)
(* __init__: the state after construction.                                 *)
(***************************************************************************)
InitState ==
    [expected_attribute_handle |-> None,
     num_bonds |-> 0,
     stored_bonds |-> <<>>,
     connection_handle |-> 0,
     devices_discovered |-> <<>>,
     attribute_value |-> None,
     services |-> <<>>,
     event_return |-> 0,
     response_return |-> 0,
     bonded |-> FALSE,
     connected |-> FALSE,
     encrypted |-> FALSE,
     bond_expected |-> FALSE,
     attribute_value_received |-> FALSE,
     procedure_completed |-> FALSE,
     bonding_fail |-> FALSE]


(***************************************************************************)
(* Packet handlers.  A handler takes the state and the packet's args and   *)
(* gives the state it leaves and the exception it raises ("none" if none). *)
(***************************************************************************)
Done(s) == [s |-> s, exc |-> "none"]

Raised(s, e) == [s |-> s, exc |-> e]

Last(seq) == seq[Len(seq)]

\* x & y on naturals
RECURSIVE BitAnd(_, _)
BitAnd(x, y) ==
    IF x = 0 \/ y = 0 THEN 0
    ELSE (IF x % 2 = 1 /\ y % 2 = 1 THEN 1 ELSE 0)
         + 2 * BitAnd(x \div 2, y \div 2)

_connection_status_flag(flags, flag_to_find) ==
    BitAnd(flags, flag_to_find) = flag_to_find

_generic_handler(s, args) == Done(s)

\* the handler recording the value without setting the flag
_ble_evt_attclient_attribute_value_no_flag(s, args) ==
    Done([s EXCEPT !.attribute_value = args.value])

_ble_evt_attclient_attribute_value(s, args) ==
    Done([s EXCEPT !.attribute_value_received = TRUE,
                   !.attribute_value = args.value])

\* gatt.Service, gatt.Characteristic, gatt.Descriptor as the handler builds them
Service(handle, uuid, secondary) ==
    [handle |-> handle, uuid |-> uuid, secondary |-> secondary,
     characteristics |-> <<>>]

Characteristic(handle, uuid) ==
    [handle |-> handle, uuid |-> uuid, custom |-> FALSE,
     characteristic_type |-> None, descriptors |-> <<>>]

Descriptor(handle, uuid, descriptor_type) ==
    [handle |-> handle, uuid |-> uuid, descriptor_type |-> descriptor_type]

\* self._services[-1].characteristics[-1] exists
HasLastCharacteristic(s) ==
    /\ Len(s.services) > 0
    /\ Len(Last(s.services).characteristics) > 0

\* the handler appending a characteristic to the first service instead of
\* the last
_ble_evt_attclient_find_information_found_first(s, args) ==
    LET uuid == args.uuid
        ns == Len(s.services)
        nc == Len(s.services[ns].characteristics)
    IN
    IF uuid \in Uuid128 THEN
        IF ~HasLastCharacteristic(s) THEN Raised(s, "IndexError")
        ELSE Done([s EXCEPT
                 !.services[ns].characteristics[nc].custom = TRUE,
                 !.services[ns].characteristics[nc].uuid = uuid,
                 !.services[ns].characteristics[nc].handle = args.chrhandle])
    ELSE IF uuid \in UuidAttributeType THEN
        IF uuid = "characteristic" THEN
            IF ns = 0 THEN Raised(s, "IndexError")
            ELSE Done([s EXCEPT !.services[1].characteristics =
                         Append(@, Characteristic(args.chrhandle, uuid))])
        ELSE IF uuid = "primary_service" THEN
            Done([s EXCEPT !.services =
                    Append(@, Service(args.chrhandle, uuid, FALSE))])
        ELSE IF uuid = "secondary_service" THEN
            Done([s EXCEPT !.services =
                    Append(@, Service(args.chrhandle, uuid, TRUE))])
        ELSE Done(s)
    ELSE IF uuid \in UuidCharacteristicType THEN
        IF ~HasLastCharacteristic(s) THEN Raised(s, "IndexError")
        ELSE Done([s EXCEPT
                 !.services[ns].characteristics[nc].characteristic_type = uuid])
    ELSE IF uuid \in UuidDescriptorType THEN
        IF ~HasLastCharacteristic(s) THEN Raised(s, "IndexError")
        ELSE Done([s EXCEPT !.services[ns].characteristics[nc].descriptors =
                     Append(@, Descriptor(args.chrhandle, uuid, uuid))])
    ELSE Done(s)

_ble_evt_attclient_find_information_found(s, args) ==
    LET uuid == args.uuid
        ns == Len(s.services)
        nc == Len(s.services[ns].characteristics)
    IN
    IF uuid \in Uuid128 THEN
        IF ~HasLastCharacteristic(s) THEN Raised(s, "IndexError")
        ELSE Done([s EXCEPT
                 !.services[ns].characteristics[nc].custom = TRUE,
                 !.services[ns].characteristics[nc].uuid = uuid,
                 !.services[ns].characteristics[nc].handle = args.chrhandle])
    ELSE IF uuid \in UuidAttributeType THEN
        IF uuid = "characteristic" THEN
            IF ns = 0 THEN Raised(s, "IndexError")
            ELSE Done([s EXCEPT !.services[ns].characteristics =
                         Append(@, Characteristic(args.chrhandle, uuid))])
        ELSE IF uuid = "primary_service" THEN
            Done([s EXCEPT !.services =
                    Append(@, Service(args.chrhandle, uuid, FALSE))])
        ELSE IF uuid = "secondary_service" THEN
            Done([s EXCEPT !.services =
                    Append(@, Service(args.chrhandle, uuid, TRUE))])
        ELSE Done(s)
    ELSE IF uuid \in UuidCharacteristicType THEN
        IF ~HasLastCharacteristic(s) THEN Raised(s, "IndexError")
        ELSE Done([s EXCEPT
                 !.services[ns].characteristics[nc].characteristic_type = uuid])
    ELSE IF uuid \in UuidDescriptorType THEN
        IF ~HasLastCharacteristic(s) THEN Raised(s, "IndexError")
        ELSE Done([s EXCEPT !.services[ns].characteristics[nc].descriptors =
                     Append(@, Descriptor(args.chrhandle, uuid, uuid))])
    ELSE Done(s)

_ble_evt_attclient_procedure_completed(s, args) ==
    Done([s EXCEPT !.procedure_completed = TRUE,
                   !.event_return = args.result])

\* the handler leaves the bonded flag as it was
_ble_evt_connection_disconnected_keep_bonded(s, args) ==
    Done([s EXCEPT !.connected = FALSE,
                   !.encrypted = FALSE,
                   !.event_return = args.reason])

_ble_evt_connection_disconnected(s, args) ==
    Done([s EXCEPT !.connected = FALSE,
                   !.encrypted = FALSE,
                   !.bonded = FALSE,
                   !.event_return = args.reason])

_ble_evt_connection_status(s, args) ==
    LET s1 == [s EXCEPT !.connection_handle = args.connection]
        s2 == IF _connection_status_flag(args.flags, FlagConnected)
              THEN [s1 EXCEPT !.connected = TRUE] ELSE s1
        s3 == IF _connection_status_flag(args.flags, FlagEncrypted)
              THEN [s2 EXCEPT !.encrypted = TRUE] ELSE s2
    IN Done(s3)

\* the handler lists the bond also when a bond was expected
_ble_evt_sm_bond_status_list_always(s, args) ==
    IF s.bond_expected
    THEN Done([s EXCEPT !.bond_expected = FALSE, !.bonded = TRUE,
                        !.stored_bonds = Append(@, args.bond)])
    ELSE Done([s EXCEPT !.stored_bonds = Append(@, args.bond)])

_ble_evt_sm_bond_status(s, args) ==
    IF s.bond_expected
    THEN Done([s EXCEPT !.bond_expected = FALSE, !.bonded = TRUE])
    ELSE Done([s EXCEPT !.stored_bonds = Append(@, args.bond)])

_ble_evt_sm_bonding_fail(s, args) ==
    Done([s EXCEPT !.bonding_fail = TRUE, !.event_return = args.result])

\* _ble_rsp_attclient_attribute_write and the ten other response handlers
\* that only store args['result']
_ble_rsp_result(s, args) == Done([s EXCEPT !.response_return = args.result])

_ble_rsp_connection_get_rssi(s, args) ==
    Done([s EXCEPT !.response_return = args.rssi])

_ble_rsp_sm_get_bonds(s, args) == Done([s EXCEPT !.num_bonds = args.bonds])

_ble_rsp_sm_set_bondable_mode(s, args) == Done(s)

(***************************************************************************)
(* Scan responses: _scan_rsp_data and _ble_evt_gap_scan_response.  A name  *)
(* is the sequence of its characters' code points (ASCII bytes decode to   *)
(* themselves), so '' is <<>>; a dict is a function on its keys.           *)
(***************************************************************************)
\* constants.ScanResponseDataType: field type byte -> name
ScanResponseDataType ==
    [b \in {1, 7, 8, 9, 10} |->
        IF b = 1 THEN "flags"
        ELSE IF b = 7 THEN "complete_list_128_bit_service_class_uuids"
        ELSE IF b = 8 THEN "shortened_local_name"
        ELSE IF b = 9 THEN "complete_local_name"
        ELSE "tx_power_level"]

\* constants.ScanResponsePacketType: packet type byte -> name
ScanResponsePacketType ==
    [b \in {0, 4} |->
        IF b = 0 THEN "connectable_advertisement_packet"
        ELSE "scan_response_packet"]

\* list(reversed(seq))
Reverse(seq) == [i \in 1..Len(seq) |-> seq[Len(seq) + 1 - i]]

\* d[key] = v on a dict
SetItem(d, key, v) ==
    [x \in DOMAIN d \cup {key} |-> IF x = key THEN v ELSE d[x]]

\* uuid_str after the chunks 0..i of a 128-bit UUID list were added to it
RECURSIVE UuidStr(_, _)
UuidStr(field_value, i) ==
    IF i < 0 THEN <<>>
    ELSE UuidStr(field_value, i - 1)
         \o Reverse(SubSeq(field_value, 16 * i + 1, 16 * i + 16))

\* the loop of _scan_rsp_data from byte i of data on, acc being dev_name,
\* data_dict and the exception raised so far
RECURSIVE ScanRspLoop(_, _, _, _, _)
ScanRspLoop(data, i, bytes_left_in_field, field_value, acc) ==
    IF i > Len(data) THEN acc
    ELSE IF bytes_left_in_field = 0
        THEN ScanRspLoop(data, i + 1, data[i], <<>>, acc)
    ELSE IF bytes_left_in_field - 1 # 0
        THEN ScanRspLoop(data, i + 1, bytes_left_in_field - 1,
                         Append(field_value, data[i]), acc)
    ELSE
        LET fv == Append(field_value, data[i])
            value == Tail(fv)
        IN
        IF fv[1] \notin DOMAIN ScanResponseDataType
        THEN [acc EXCEPT !.exc = "AttributeError"]
        ELSE
        LET field_type == ScanResponseDataType[fv[1]] IN
        IF field_type \in {"complete_local_name", "shortened_local_name"}
        THEN ScanRspLoop(data, i + 1, 0, value,
                 [acc EXCEPT !.dev_name = value,
                             !.data_dict = SetItem(@, field_type, value)])
        ELSE IF field_type = "complete_list_128_bit_service_class_uuids"
        THEN ScanRspLoop(data, i + 1, 0, value,
                 [acc EXCEPT !.data_dict = SetItem(@, field_type,
                     [j \in 1..(Len(value) \div 16) |-> UuidStr(value, j - 1)])])
        ELSE ScanRspLoop(data, i + 1, 0, value,
                 [acc EXCEPT !.data_dict = SetItem(@, field_type, value)])

_scan_rsp_data(data) ==
    ScanRspLoop(data, 1, 0, <<>>,
                [dev_name |-> <<>>, data_dict |-> <<>>, exc |-> "none"])

\* len(d) of a dict
DictLen(d) == Cardinality(DOMAIN d)

\* the name is replaced by every non-empty parsed name
MergeNameAlways(dev, name) ==
    IF name # <<>> THEN [dev EXCEPT !.name = name] ELSE dev

\* if dev['name'] == '': dev['name'] = name
MergeName(dev, name) ==
    IF dev.name = <<>> THEN [dev EXCEPT !.name = name] ELSE dev

\* the field map is replaced when the new one is not shorter
MergePacketDataOrEqual(dev, packet_type, data_dict) ==
    IF \/ packet_type \notin DOMAIN dev.packet_data
       \/ DictLen(dev.packet_data[packet_type]) <= DictLen(data_dict)
    THEN [dev EXCEPT !.packet_data = SetItem(@, packet_type, data_dict)]
    ELSE dev

\* if (packet_type not in dev['packet_data']) or
\*    len(dev['packet_data'][packet_type]) < len(data_dict): ...
MergePacketData(dev, packet_type, data_dict) ==
    IF \/ packet_type \notin DOMAIN dev.packet_data
       \/ DictLen(dev.packet_data[packet_type]) < DictLen(data_dict)
    THEN [dev EXCEPT !.packet_data = SetItem(@, packet_type, data_dict)]
    ELSE dev

\* the packet type's name, None for a byte that names none
PacketTypeName(b) ==
    IF b \in DOMAIN ScanResponsePacketType THEN ScanResponsePacketType[b]
    ELSE None

_ble_evt_gap_scan_response(s, args) ==
    LET packet_type == PacketTypeName(args.packet_type)
        address == Reverse(args.sender)
        r == _scan_rsp_data(args.data)
        devices == s.devices_discovered
        dev == IF address \in DOMAIN devices THEN devices[address]
               ELSE [name |-> r.dev_name, address |-> address,
                     rssi |-> args.rssi, packet_data |-> <<>>]
    IN
    IF r.exc # "none" THEN Raised(s, r.exc)
    ELSE Done([s EXCEPT !.devices_discovered =
                 SetItem(devices, address,
                         MergePacketData(MergeName(dev, r.dev_name),
                                         packet_type, r.data_dict))])

\* self._packet_handlers[packet_type](args)
_packet_handlers(s, packet) ==
    LET t == packet.kind IN
    IF t \in ResultResponses THEN _ble_rsp_result(s, packet)
    ELSE IF t = "ble_rsp_connection_get_rssi"
        THEN _ble_rsp_connection_get_rssi(s, packet)
    ELSE IF t = "ble_rsp_sm_get_bonds" THEN _ble_rsp_sm_get_bonds(s, packet)
    ELSE IF t = "ble_rsp_sm_set_bondable_mode"
        THEN _ble_rsp_sm_set_bondable_mode(s, packet)
    ELSE IF t = "ble_evt_attclient_attribute_value"
        THEN _ble_evt_attclient_attribute_value(s, packet)
    ELSE IF t = "ble_evt_attclient_find_information_found"
        THEN _ble_evt_attclient_find_information_found(s, packet)
    ELSE IF t = "ble_evt_attclient_procedure_completed"
        THEN _ble_evt_attclient_procedure_completed(s, packet)
    ELSE IF t = "ble_evt_connection_status"
        THEN _ble_evt_connection_status(s, packet)
    ELSE IF t = "ble_evt_connection_disconnected"
        THEN _ble_evt_connection_disconnected(s, packet)
    ELSE IF t = "ble_evt_gap_scan_response"
        THEN _ble_evt_gap_scan_response(s, packet)
    ELSE IF t = "ble_evt_sm_bond_status" THEN _ble_evt_sm_bond_status(s, packet)
    ELSE IF t = "ble_evt_sm_bonding_fail"
        THEN _ble_evt_sm_bonding_fail(s, packet)
    ELSE _generic_handler(s, packet)


(***************************************************************************)
(* Public operations.  op(k, s, a) is the code of the operation that runs  *)
(* when its k-th wait has returned (k = 0: from the call), on state s with *)
(* arguments a.  It gives the state it leaves, the commands it sends, and  *)
(* where it stops: in its next wait, at the lock, or at its end with the   *)
(* value returned or the exception raised.                                 *)
(***************************************************************************)
PyNone == [type |-> "None"]
PyInt(n) == [type |-> "int", v |-> n]
PyBytes(b) == [type |-> "bytearray", v |-> b]
PyList(l) == [type |-> "list", v |-> l]

Idle == [at |-> "idle"]
AtWait(k) == [at |-> "wait", k |-> k]

Wait(s, k, cmds) ==
    [s |-> s, pc |-> AtWait(k), out |-> "running", val |-> PyNone, cmds |-> cmds]

Raise(s, e, cmds) ==
    [s |-> s, pc |-> Idle, out |-> e, val |-> PyNone, cmds |-> cmds]

Return(s, v, cmds) ==
    [s |-> s, pc |-> Idle, out |-> "ok", val |-> v, cmds |-> cmds]

Cmd(name) == [cmd |-> name]

\* the exception _check_connection raises, "none" when the check passes
_check_connection(s, check_if_connected) ==
    IF (~s.connected) /\ check_if_connected THEN "NotConnectedError"
    ELSE IF s.connected /\ (~check_if_connected) THEN "AlreadyConnected"
    ELSE "none"

bond_wait_for_event(s) ==
    IF (~s.bonding_fail) /\ s.connected /\ (~s.bonded) /\ (~s.encrypted)
    THEN Wait(s, 3, <<>>)
    ELSE IF _check_connection(s, TRUE) # "none"
        THEN Raise(s, _check_connection(s, TRUE), <<>>)
    ELSE IF s.bonding_fail THEN Raise(s, "BGAPIError", <<>>)
    ELSE Return(s, PyNone, <<>>)

bond(k, s, a) ==
    IF _check_connection(s, TRUE) # "none"
    THEN Raise(s, _check_connection(s, TRUE), <<>>)
    ELSE IF k = 0 THEN
        Wait([s EXCEPT !.bond_expected = TRUE], 1,
             <<Cmd("ble_cmd_sm_set_bondable_mode")>>)
    ELSE IF k = 1 THEN
        Wait([s EXCEPT !.bonding_fail = FALSE], 2,
             <<Cmd("ble_cmd_sm_encrypt_start")>>)
    ELSE IF k = 2 /\ s.response_return # 0 THEN Raise(s, "BGAPIError", <<>>)
    ELSE bond_wait_for_event(s)

\* attribute_write returning whatever result the procedure completed event
\* carried
attribute_write_ignore_event(k, s, a) ==
    IF k = 0 THEN
        IF _check_connection(s, TRUE) # "none"
        THEN Raise(s, _check_connection(s, TRUE), <<>>)
        ELSE Wait(s, 1, <<[cmd |-> "ble_cmd_attclient_attribute_write",
                           atthandle |-> a.attribute.handle,
                           value |-> a.value]>>)
    ELSE IF k = 1 THEN
        IF _check_connection(s, TRUE) # "none"
        THEN Raise(s, _check_connection(s, TRUE), <<>>)
        ELSE IF s.response_return # 0 THEN Raise(s, "BGAPIError", <<>>)
        ELSE Wait(s, 2, <<>>)
    ELSE
        LET s1 == [s EXCEPT !.procedure_completed = FALSE] IN
        IF _check_connection(s1, TRUE) # "none"
        THEN Raise(s1, _check_connection(s1, TRUE), <<>>)
        ELSE Return(s1, PyNone, <<>>)

attribute_write(k, s, a) ==
    IF k = 0 THEN
        IF _check_connection(s, TRUE) # "none"
        THEN Raise(s, _check_connection(s, TRUE), <<>>)
        ELSE Wait(s, 1, <<[cmd |-> "ble_cmd_attclient_attribute_write",
                           atthandle |-> a.attribute.handle,
                           value |-> a.value]>>)
    ELSE IF k = 1 THEN
        IF _check_connection(s, TRUE) # "none"
        THEN Raise(s, _check_connection(s, TRUE), <<>>)
        ELSE IF s.response_return # 0 THEN Raise(s, "BGAPIError", <<>>)
        ELSE Wait(s, 2, <<>>)
    ELSE
        LET s1 == [s EXCEPT !.procedure_completed = FALSE] IN
        IF _check_connection(s1, TRUE) # "none"
        THEN Raise(s1, _check_connection(s1, TRUE), <<>>)
        ELSE IF s1.event_return # 0 THEN Raise(s1, "BGAPIError", <<>>)
        ELSE Return(s1, PyNone, <<>>)

\* attribute_read leaving the two event flags as they are before its second
\* wait
attribute_read_no_reset(k, s, a) ==
    IF _check_connection(s, TRUE) # "none"
    THEN Raise(s, _check_connection(s, TRUE), <<>>)
    ELSE IF k = 0 THEN
        Wait([s EXCEPT !.expected_attribute_handle = a.attribute.handle], 1,
             <<[cmd |-> "ble_cmd_attclient_read_by_handle",
                atthandle |-> a.attribute.handle]>>)
    ELSE IF k = 1 THEN
        IF s.response_return # 0 THEN Raise(s, "BGAPIError", <<>>)
        ELSE Wait(s, 2, <<>>)
    ELSE IF s.procedure_completed THEN
        Raise([s EXCEPT !.procedure_completed = FALSE], "BGAPIError", <<>>)
    ELSE IF s.attribute_value_received THEN
        Return([s EXCEPT !.attribute_value_received = FALSE],
               PyBytes(s.attribute_value), <<>>)
    ELSE Return(s, PyNone, <<>>)

attribute_read(k, s, a) ==
    IF _check_connection(s, TRUE) # "none"
    THEN Raise(s, _check_connection(s, TRUE), <<>>)
    ELSE IF k = 0 THEN
        Wait([s EXCEPT !.expected_attribute_handle = a.attribute.handle], 1,
             <<[cmd |-> "ble_cmd_attclient_read_by_handle",
                atthandle |-> a.attribute.handle]>>)
    ELSE IF k = 1 THEN
        IF s.response_return # 0 THEN Raise(s, "BGAPIError", <<>>)
        ELSE Wait([s EXCEPT !.attribute_value_received = FALSE,
                            !.procedure_completed = FALSE], 2, <<>>)
    ELSE IF s.procedure_completed THEN
        Raise([s EXCEPT !.procedure_completed = FALSE], "BGAPIError", <<>>)
    ELSE IF s.attribute_value_received THEN
        Return([s EXCEPT !.attribute_value_received = FALSE],
               PyBytes(s.attribute_value), <<>>)
    ELSE Return(s, PyNone, <<>>)

\* list_bonds: k = 1 is the response wait, k = 2 the event wait of the loop
list_bonds(k, s, a) ==
    IF k = 0 THEN
        Wait([s EXCEPT !.stored_bonds = <<>>], 1, <<Cmd("ble_cmd_sm_get_bonds")>>)
    ELSE IF s.num_bonds > 0 /\ Len(s.stored_bonds) < s.num_bonds
        THEN Wait(s, 2, <<>>)
    ELSE Return(s, PyList(s.stored_bonds), <<>>)

connect(k, s, a) ==
    IF k = 0 THEN Wait(s, 1, <<Cmd("ble_cmd_gap_connect_direct")>>)
    ELSE IF k = 1 THEN
        IF s.response_return # 0 THEN Raise(s, "BGAPIError", <<>>)
        ELSE Wait(s, 2, <<>>)
    ELSE Return(s, PyNone, <<>>)

disconnect(k, s, a) ==
    IF k = 0 THEN
        Wait(s, 1, <<[cmd |-> "ble_cmd_connection_disconnect",
                      connection |-> s.connection_handle]>>)
    ELSE IF k = 1 THEN
        IF s.response_return # 0 THEN
            IF a.fail_quietly THEN Return(s, PyNone, <<>>)
            ELSE Raise(s, "BGAPIError", <<>>)
        ELSE Wait(s, 2, <<>>)
    ELSE Return(s, PyNone, <<>>)

\* encrypt returning without looking at the encrypted flag
encrypt_any_status(k, s, a) ==
    IF _check_connection(s, TRUE) # "none"
    THEN Raise(s, _check_connection(s, TRUE), <<>>)
    ELSE IF k = 0 THEN Wait(s, 1, <<Cmd("ble_cmd_sm_set_bondable_mode")>>)
    ELSE IF k = 1 THEN Wait(s, 2, <<Cmd("ble_cmd_sm_encrypt_start")>>)
    ELSE IF k = 2 THEN
        IF s.response_return # 0 THEN Raise(s, "BGAPIError", <<>>)
        ELSE Wait(s, 3, <<>>)
    ELSE Return(s, PyNone, <<>>)

\* encrypt checking the connection only before its first command
encrypt_check_once(k, s, a) ==
    IF k = 0 /\ _check_connection(s, TRUE) # "none"
    THEN Raise(s, _check_connection(s, TRUE), <<>>)
    ELSE IF k = 0 THEN Wait(s, 1, <<Cmd("ble_cmd_sm_set_bondable_mode")>>)
    ELSE IF k = 1 THEN Wait(s, 2, <<Cmd("ble_cmd_sm_encrypt_start")>>)
    ELSE IF k = 2 THEN
        IF s.response_return # 0 THEN Raise(s, "BGAPIError", <<>>)
        ELSE Wait(s, 3, <<>>)
    ELSE IF ~s.encrypted THEN Raise(s, "BGAPIError", <<>>)
    ELSE Return(s, PyNone, <<>>)

encrypt(k, s, a) ==
    IF _check_connection(s, TRUE) # "none"
    THEN Raise(s, _check_connection(s, TRUE), <<>>)
    ELSE IF k = 0 THEN Wait(s, 1, <<Cmd("ble_cmd_sm_set_bondable_mode")>>)
    ELSE IF k = 1 THEN Wait(s, 2, <<Cmd("ble_cmd_sm_encrypt_start")>>)
    ELSE IF k = 2 THEN
        IF s.response_return # 0 THEN Raise(s, "BGAPIError", <<>>)
        ELSE Wait(s, 3, <<>>)
    ELSE IF ~s.encrypted THEN Raise(s, "BGAPIError", <<>>)
    ELSE Return(s, PyNone, <<>>)

\* discover_attributes resetting the accumulator before the connection check
discover_attributes_reset_first(k, s, a) ==
    LET s0 == IF k = 0 THEN [s EXCEPT !.services = <<>>] ELSE s IN
    IF _check_connection(s0, TRUE) # "none"
    THEN Raise(s0, _check_connection(s0, TRUE), <<>>)
    ELSE IF k = 0 THEN
        Wait(s0, 1, <<Cmd("ble_cmd_attclient_find_information")>>)
    ELSE IF k = 1 THEN
        IF s0.response_return # 0 THEN Raise(s0, "BGAPIError", <<>>)
        ELSE Wait(s0, 2, <<>>)
    ELSE
        LET s1 == [s0 EXCEPT !.procedure_completed = FALSE] IN
        IF s1.event_return # 0 THEN Raise(s1, "BGAPIError", <<>>)
        ELSE Return(s1, PyList(s1.services), <<>>)

discover_attributes(k, s, a) ==
    IF _check_connection(s, TRUE) # "none"
    THEN Raise(s, _check_connection(s, TRUE), <<>>)
    ELSE IF k = 0 THEN
        Wait([s EXCEPT !.services = <<>>], 1,
             <<Cmd("ble_cmd_attclient_find_information")>>)
    ELSE IF k = 1 THEN
        IF s.response_return # 0 THEN Raise(s, "BGAPIError", <<>>)
        ELSE Wait(s, 2, <<>>)
    ELSE
        LET s1 == [s EXCEPT !.procedure_completed = FALSE] IN
        IF s1.event_return # 0 THEN Raise(s1, "BGAPIError", <<>>)
        ELSE Return(s1, PyList(s1.services), <<>>)

\* _get_rssi_once up to its wait: the check and the command
_get_rssi_once(k, s) ==
    IF _check_connection(s, TRUE) # "none"
    THEN Raise(s, _check_connection(s, TRUE), <<>>)
    ELSE Wait(s, k, <<[cmd |-> "ble_cmd_connection_get_rssi",
                       connection |-> s.connection_handle]>>)

\* get_rssi trying once more than num_attempts
get_rssi_one_more(k, s, a) ==
    IF k = 0 THEN _get_rssi_once(1, s)
    ELSE IF _check_connection(s, TRUE) # "none"
        THEN Raise(s, _check_connection(s, TRUE), <<>>)
    ELSE IF s.response_return # RssiSentinel
        THEN Return(s, PyInt(s.response_return), <<>>)
    ELSE IF k <= num_attempts THEN _get_rssi_once(k + 1, s)
    ELSE Raise(s, "BGAPIError", <<>>)

\* k waits returned: attempt k ends, and attempt k + 1 begins if it failed
get_rssi(k, s, a) ==
    IF k = 0 THEN _get_rssi_once(1, s)
    ELSE IF _check_connection(s, TRUE) # "none"
        THEN Raise(s, _check_connection(s, TRUE), <<>>)
    ELSE IF s.response_return # RssiSentinel
        THEN Return(s, PyInt(s.response_return), <<>>)
    ELSE IF k < num_attempts THEN _get_rssi_once(k + 1, s)
    ELSE Raise(s, "BGAPIError", <<>>)

IsCccd(d) == d.descriptor_type = "client_characteristic_configuration"

HasCccd(characteristic) ==
    \E i \in 1..Len(characteristic.descriptors) :
        IsCccd(characteristic.descriptors[i])

\* the first client characteristic configuration descriptor of the
\* characteristic
FindCccd(characteristic) ==
    LET ds == characteristic.descriptors
        is == {i \in 1..Len(ds) : IsCccd(ds[i])}
    IN ds[CHOOSE i \in is : \A j \in is : i <= j]

ConfigVal(a) ==
    <<(IF a.notifications THEN 1 ELSE 0) + (IF a.indications THEN 2 ELSE 0), 0>>

\* subscribe registering the callback once the write's response has come,
\* without waiting for the procedure completed event
subscribe_register_on_response(k, s, a) ==
    IF k = 0 /\ ~(a.notifications \/ a.indications)
    THEN Raise(s, "AssertionError", <<>>)
    ELSE IF k = 0 /\ a.indications THEN Raise(s, "NotImplementedError", <<>>)
    ELSE IF k = 0 /\ ~HasCccd(a.characteristic) THEN Raise(s, "BGAPIError", <<>>)
    ELSE LET w == attribute_write(k, s, [attribute |-> FindCccd(a.characteristic),
                                         value |-> ConfigVal(a)])
         IN IF (w.out = "ok" \/ (k = 1 /\ w.out = "running")) /\ a.callback # None
            THEN [w EXCEPT !.pc = [at |-> "acquire"], !.out = "running"]
            ELSE w

\* subscribe up to the lock: the checks, then attribute_write(cccd, config_val)
subscribe(k, s, a) ==
    IF k = 0 /\ ~(a.notifications \/ a.indications)
    THEN Raise(s, "AssertionError", <<>>)
    ELSE IF k = 0 /\ a.indications THEN Raise(s, "NotImplementedError", <<>>)
    ELSE IF k = 0 /\ ~HasCccd(a.characteristic) THEN Raise(s, "BGAPIError", <<>>)
    ELSE LET w == attribute_write(k, s, [attribute |-> FindCccd(a.characteristic),
                                         value |-> ConfigVal(a)])
         IN IF w.out = "ok" /\ a.callback # None
            THEN [w EXCEPT !.pc = [at |-> "acquire"], !.out = "running"]
            ELSE w

\* start() from its disconnect(fail_quietly=True) on: the commands it sends
\* and the five waits it can stop in (a failed command only logs a warning)
start(k, s, a) ==
    IF k = 0 THEN
        Wait(s, 1, <<[cmd |-> "ble_cmd_connection_disconnect",
                      connection |-> s.connection_handle]>>)
    ELSE IF k = 1 THEN
        IF s.response_return # 0
        THEN Wait(s, 3, <<Cmd("ble_cmd_gap_set_mode")>>)
        ELSE Wait(s, 2, <<>>)
    ELSE IF k = 2 THEN Wait(s, 3, <<Cmd("ble_cmd_gap_set_mode")>>)
    ELSE IF k = 3 THEN Wait(s, 4, <<Cmd("ble_cmd_gap_end_procedure")>>)
    ELSE IF k = 4 THEN Wait(s, 5, <<Cmd("ble_cmd_sm_set_bondable_mode")>>)
    ELSE Return(s, PyNone, <<>>)

PyDict(d) == [type |-> "dict", v |-> d]

\* scan: k = 1 is the wait for the set-scan-parameters response, k = 2 the
\* wait for the discover response, k = 3 the wait for the end-procedure
\* response, begun when time.sleep(scan_time/1000) has returned
scan(k, s, a) ==
    IF k = 0 THEN Wait(s, 1, <<Cmd("ble_cmd_gap_set_scan_parameters")>>)
    ELSE IF s.response_return # 0 THEN Raise(s, "BGAPIError", <<>>)
    ELSE IF k = 1 THEN Wait(s, 2, <<Cmd("ble_cmd_gap_discover")>>)
    ELSE IF k = 2 THEN Wait(s, 3, <<Cmd("ble_cmd_gap_end_procedure")>>)
    ELSE Return(s, PyDict(s.devices_discovered), <<>>)

\* the operation's code after its k-th wait
Operation(k, s, a) ==
    IF a.op = "bond" THEN bond(k, s, a)
    ELSE IF a.op = "attribute_write" THEN attribute_write(k, s, a)
    ELSE IF a.op = "attribute_read" THEN attribute_read(k, s, a)
    ELSE IF a.op = "connect" THEN connect(k, s, a)
    ELSE IF a.op = "disconnect" THEN disconnect(k, s, a)
    ELSE IF a.op = "encrypt" THEN encrypt(k, s, a)
    ELSE IF a.op = "discover_attributes" THEN discover_attributes(k, s, a)
    ELSE IF a.op = "get_rssi" THEN get_rssi(k, s, a)
    ELSE IF a.op = "list_bonds" THEN list_bonds(k, s, a)
    ELSE IF a.op = "start" THEN start(k, s, a)
    ELSE IF a.op = "scan" THEN scan(k, s, a)
    ELSE subscribe(k, s, a)


(***************************************************************************)
(* The waits of the operations: the packet types each wait accepts, and    *)
(* the timeout and exception type it is given.                             *)
(***************************************************************************)
Disconnected == "ble_evt_connection_disconnected"

expected_packet_choices(a, k) ==
    IF a.op = "bond" THEN
        IF k = 1 THEN {"ble_rsp_sm_set_bondable_mode", Disconnected}
        ELSE IF k = 2 THEN {"ble_rsp_sm_encrypt_start", Disconnected}
        ELSE {"ble_evt_connection_status", "ble_evt_sm_bonding_fail",
              Disconnected}
    ELSE IF a.op \in {"attribute_write", "subscribe"} THEN
        IF k = 1 THEN {"ble_rsp_attclient_attribute_write", Disconnected}
        ELSE {"ble_evt_attclient_procedure_completed", Disconnected}
    ELSE IF a.op = "attribute_read" THEN
        IF k = 1 THEN {"ble_rsp_attclient_read_by_handle", Disconnected}
        ELSE {"ble_evt_attclient_attribute_value",
              "ble_evt_attclient_procedure_completed", Disconnected}
    ELSE IF a.op = "connect" THEN
        IF k = 1 THEN {"ble_rsp_gap_connect_direct"}
        ELSE {"ble_evt_connection_status"}
    ELSE IF a.op = "disconnect" THEN
        IF k = 1 THEN {"ble_rsp_connection_disconnect"}
        ELSE {Disconnected}
    ELSE IF a.op = "encrypt" THEN
        IF k = 1 THEN {"ble_rsp_sm_set_bondable_mode", Disconnected}
        ELSE IF k = 2 THEN {"ble_rsp_sm_encrypt_start", Disconnected}
        ELSE {"ble_evt_connection_status", Disconnected}
    ELSE IF a.op = "discover_attributes" THEN
        IF k = 1 THEN {"ble_rsp_attclient_find_information", Disconnected}
        ELSE {"ble_evt_attclient_procedure_completed", Disconnected}
    ELSE IF a.op = "list_bonds" THEN
        IF k = 1 THEN {"ble_rsp_sm_get_bonds"}
        ELSE {"ble_evt_sm_bond_status"}
    ELSE IF a.op = "start" THEN
        IF k = 1 THEN {"ble_rsp_connection_disconnect"}
        ELSE IF k = 2 THEN {Disconnected}
        ELSE IF k = 3 THEN {"ble_rsp_gap_set_mode"}
        ELSE IF k = 4 THEN {"ble_rsp_gap_end_procedure"}
        ELSE {"ble_rsp_sm_set_bondable_mode"}
    ELSE IF a.op = "scan" THEN
        IF k = 1 THEN {"ble_rsp_gap_set_scan_parameters"}
        ELSE IF k = 2 THEN {"ble_rsp_gap_discover"}
        ELSE {"ble_rsp_gap_end_procedure"}
    ELSE {"ble_rsp_connection_get_rssi", Disconnected}

\* the wait is given a timeout (timeout is not None)
HasTimeout(a, k) == a.op = "connect" /\ k = 2

exception_type(a, k) ==
    IF a.op = "connect" /\ k = 2 THEN "NotConnectedError" ELSE "BGAPIError"

\* the caller is in a wait whose loop is at `stage`
InWait == pc.at = "wait"
TimedWait == InWait /\ HasTimeout(call, pc.k)

(***************************************************************************)
(* The caller.                                                             *)
(***************************************************************************)
\* the caller goes where r says: r is what the operation's code gave
Proceed(r) ==
    /\ st' = r.s
    /\ pc' = r.pc
    /\ outcome' = r.out
    /\ ret' = r.val
    /\ sent' = sent \o r.cmds
    /\ wstage' = "check"
    /\ elapsed' = 0
    /\ polled' = 0

\* a public operation is called with arguments a
Call(a) ==
    /\ pc.at = "idle"
    /\ ncalls < MaxCalls
    /\ LET r == Operation(0, st, a) IN
        /\ st' = r.s
        /\ pc' = r.pc
        /\ outcome' = r.out
        /\ ret' = r.val
        /\ sent' = r.cmds
    /\ call' = a
    /\ returned' = 0
    /\ ncalls' = ncalls + 1
    /\ wstage' = "check"
    /\ elapsed' = 0
    /\ polled' = 0
    /\ UNCHANGED <<callbacks, lock, recvr_queue, callback_threads, recvr_vars, thread_vars,
                   handled>>

\* Call(a), noting in at_call what the queue holds and what the connection
\* flags are as the operation begins
CallNoted(a) ==
    /\ pc.at = "idle"
    /\ ncalls < MaxCalls
    /\ LET r == Operation(0, st, a) IN
        /\ st' = r.s
        /\ pc' = r.pc
        /\ outcome' = r.out
        /\ ret' = r.val
        /\ sent' = r.cmds
    /\ call' = a
    /\ returned' = 0
    /\ ncalls' = ncalls + 1
    /\ wstage' = "check"
    /\ elapsed' = 0
    /\ polled' = 0
    /\ at_call' = [queued |-> {recvr_queue[i].seq : i \in DOMAIN recvr_queue},
                   connected |-> st.connected, encrypted |-> st.encrypted,
                   bonded |-> st.bonded]
    /\ UNCHANGED <<callbacks, lock, recvr_queue, callback_threads, recvr_vars,
                   handled, ser, recvr_thread_stop, recvr_thread_is_done,
                   callbacks_returned, codec_vars>>

\* _process_packets_until, the top of the loop of a wait with a timeout:
\* elapsed_time >= timeout raises exception_type
_process_packets_until_check ==
    /\ TimedWait
    /\ wstage = "check"
    /\ IF elapsed >= call.timeout
       THEN /\ pc' = Idle
            /\ outcome' = exception_type(call, pc.k)
            /\ UNCHANGED <<wstage, polled>>
       ELSE /\ wstage' = "get"
            /\ polled' = 0
            /\ UNCHANGED <<pc, outcome>>
    /\ UNCHANGED <<st, callbacks, lock, recvr_queue, callback_threads,
                   recvr_vars, thread_vars, call, ret, sent, handled, returned, ncalls,
                   elapsed>>

\* _process_packets_until calling the handler of accepted packets only
_process_packets_until_accepted_only ==
    /\ InWait
    /\ HasTimeout(call, pc.k) => wstage = "get"
    /\ recvr_queue # <<>>
    /\ LET packet == Head(recvr_queue)
           found == packet.kind \in expected_packet_choices(call, pc.k)
           h == IF found THEN _packet_handlers(st, packet) ELSE Done(st)
       IN
        /\ recvr_queue' = Tail(recvr_queue)
        /\ handled' = Append(handled, [n |-> ncalls, k |-> pc.k,
                                       packet |-> packet])
        /\ IF found
           THEN /\ Proceed(Operation(pc.k, h.s, call))
                /\ returned' = returned + 1
           ELSE /\ st' = h.s
                /\ wstage' = "check"
                /\ UNCHANGED <<pc, outcome, ret, sent, returned, elapsed,
                               polled>>
    /\ UNCHANGED <<callbacks, lock, callback_threads, recvr_vars, thread_vars, call, ncalls>>

\* _process_packets_until, Queue.get gives a packet: its handler runs, and
\* the wait returns if the packet's type is one of expected_packet_choices
_process_packets_until ==
    /\ InWait
    /\ HasTimeout(call, pc.k) => wstage = "get"
    /\ recvr_queue # <<>>
    /\ LET packet == Head(recvr_queue)
           h == _packet_handlers(st, packet)
           found == packet.kind \in expected_packet_choices(call, pc.k)
       IN
        /\ recvr_queue' = Tail(recvr_queue)
        /\ handled' = Append(handled, [n |-> ncalls, k |-> pc.k,
                                       packet |-> packet])
        /\ IF h.exc # "none"
           THEN /\ st' = h.s
                /\ pc' = Idle
                /\ outcome' = h.exc
                /\ UNCHANGED <<ret, sent, returned, timer_vars>>
           ELSE IF found
           THEN /\ Proceed(Operation(pc.k, h.s, call))
                /\ returned' = returned + 1
           ELSE /\ st' = h.s
                /\ wstage' = "check"
                /\ UNCHANGED <<pc, outcome, ret, sent, returned, elapsed,
                               polled>>
    /\ UNCHANGED <<callbacks, lock, callback_threads, recvr_vars, thread_vars, call, ncalls>>

\* _process_packets_until, Queue.get of a wait with a timeout raises
\* Queue.Empty after the polling interval
_process_packets_until_empty ==
    /\ TimedWait
    /\ wstage = "get"
    /\ recvr_queue = <<>>
    /\ polled = PollInterval
    /\ wstage' = "check"
    /\ UNCHANGED <<st, callbacks, lock, recvr_queue, callback_threads,
                   recvr_vars, caller_vars, thread_vars, elapsed, polled>>

\* time passes while Queue.get blocks on the empty queue
Tick ==
    /\ TimedWait
    /\ wstage = "get"
    /\ recvr_queue = <<>>
    /\ polled < PollInterval
    /\ elapsed' = elapsed + 1
    /\ polled' = polled + 1
    /\ UNCHANGED <<st, callbacks, lock, recvr_queue, callback_threads,
                   recvr_vars, caller_vars, thread_vars, wstage>>

\* subscribe: self._lock.acquire()
subscribe_acquire ==
    /\ pc.at = "acquire"
    /\ lock = "free"
    /\ lock' = "caller"
    /\ pc' = [at |-> "insert"]
    /\ UNCHANGED <<st, callbacks, recvr_queue, callback_threads, recvr_vars, thread_vars,
                   call, outcome, ret, sent, handled, returned, ncalls,
                   timer_vars>>

\* subscribe: self._callbacks[characteristic.handle] = callback
subscribe_insert ==
    /\ pc.at = "insert"
    /\ callbacks' = [h \in DOMAIN callbacks \cup {call.characteristic.handle} |->
                       IF h = call.characteristic.handle THEN call.callback
                       ELSE callbacks[h]]
    /\ pc' = [at |-> "release"]
    /\ UNCHANGED <<st, lock, recvr_queue, callback_threads, recvr_vars, thread_vars,
                   call, outcome, ret, sent, handled, returned, ncalls,
                   timer_vars>>

\* subscribe: self._lock.release(), and the operation returns
subscribe_release ==
    /\ pc.at = "release"
    /\ lock' = "free"
    /\ pc' = Idle
    /\ outcome' = "ok"
    /\ UNCHANGED <<st, callbacks, recvr_queue, callback_threads, recvr_vars, thread_vars,
                   call, ret, sent, handled, returned, ncalls, timer_vars>>

(***************************************************************************)
(* The receiver thread, _recv_packets.                                     *)
(***************************************************************************)
att_value == "ble_evt_attclient_attribute_value"

\* packet p as the n-th packet the receiver completes: seq tells the packets
\* of a behaviour apart and is read by no code
Tagged(p, n) ==
    [f \in DOMAIN p \cup {"seq"} |-> IF f = "seq" THEN n ELSE p[f]]

\* self._ser.read() gives the byte that completes packet p: parse_byte
\* returns it and decode_packet gives its type and args
_recv_packets_read(p) ==
    /\ rpc = "read"
    /\ nrecv < MaxPackets
    /\ rpacket' = Tagged(p, nrecv + 1)
    /\ rpc' = "acquire"
    /\ nrecv' = nrecv + 1
    /\ UNCHANGED <<st, callbacks, lock, recvr_queue, callback_threads,
                   rcallbacks, caller_vars, thread_vars, timer_vars>>

\* _recv_packets going on to its copy without the lock
_recv_packets_acquire_unlocked ==
    /\ rpc = "acquire"
    /\ rpc' = "copy"
    /\ UNCHANGED <<st, callbacks, lock, recvr_queue, callback_threads, rpacket,
                   rcallbacks, nrecv, caller_vars, thread_vars, timer_vars>>

\* self._lock.acquire()
_recv_packets_acquire ==
    /\ rpc = "acquire"
    /\ lock = "free"
    /\ lock' = "recvr"
    /\ rpc' = "copy"
    /\ UNCHANGED <<st, callbacks, recvr_queue, callback_threads, rpacket,
                   rcallbacks, nrecv, caller_vars, thread_vars, timer_vars>>

\* callbacks = dict(self._callbacks)
_recv_packets_copy ==
    /\ rpc = "copy"
    /\ rcallbacks' = callbacks
    /\ rpc' = "release"
    /\ UNCHANGED <<st, callbacks, lock, recvr_queue, callback_threads, rpacket,
                   nrecv, caller_vars, thread_vars, timer_vars>>

\* self._lock.release()
_recv_packets_release ==
    /\ rpc = "release"
    /\ lock' = "free"
    /\ rpc' = "route"
    /\ UNCHANGED <<st, callbacks, recvr_queue, callback_threads, rpacket,
                   rcallbacks, nrecv, caller_vars, thread_vars, timer_vars>>

\* the packet is a notification: its handle is one of handles_subscribed_to
IsNotification(packet, cbs) ==
    /\ packet.kind = att_value
    /\ packet.atthandle \in DOMAIN cbs

\* _recv_packets calling the callback itself: the receiver is in the
\* callback until it returns
_recv_packets_route_inline ==
    /\ rpc = "route"
    /\ IF IsNotification(rpacket, rcallbacks)
       THEN /\ callback_threads' =
                  Append(callback_threads,
                         [target |-> rcallbacks[rpacket.atthandle],
                          args |-> rpacket.value, seq |-> rpacket.seq])
            /\ rpc' = "callback"
            /\ UNCHANGED recvr_queue
       ELSE /\ recvr_queue' = Append(recvr_queue, rpacket)
            /\ rpc' = "read"
            /\ UNCHANGED callback_threads
    /\ UNCHANGED <<st, callbacks, lock, rpacket, rcallbacks, nrecv,
                   caller_vars, thread_vars, timer_vars>>

\* _recv_packets running the packet's handler before it routes the packet
_recv_packets_route_handle ==
    /\ rpc = "route"
    /\ st' = _packet_handlers(st, rpacket).s
    /\ IF IsNotification(rpacket, rcallbacks)
       THEN /\ callback_threads' =
                  Append(callback_threads,
                         [target |-> rcallbacks[rpacket.atthandle],
                          args |-> rpacket.value, seq |-> rpacket.seq])
            /\ UNCHANGED recvr_queue
       ELSE /\ recvr_queue' = Append(recvr_queue, rpacket)
            /\ UNCHANGED callback_threads
    /\ rpc' = "read"
    /\ UNCHANGED <<callbacks, lock, rpacket, rcallbacks, nrecv,
                   caller_vars, thread_vars, timer_vars>>

\* _recv_packets routing a notification to its callback and to the queue
_recv_packets_route_both ==
    /\ rpc = "route"
    /\ IF IsNotification(rpacket, rcallbacks)
       THEN callback_threads' =
                  Append(callback_threads,
                         [target |-> rcallbacks[rpacket.atthandle],
                          args |-> rpacket.value, seq |-> rpacket.seq])
       ELSE UNCHANGED callback_threads
    /\ recvr_queue' = Append(recvr_queue, rpacket)
    /\ rpc' = "read"
    /\ UNCHANGED <<st, callbacks, lock, rpacket, rcallbacks, nrecv,
                   caller_vars, thread_vars, timer_vars>>

\* _recv_packets without its last else: an attribute value whose handle is
\* not subscribed to is dropped
_recv_packets_route_drop ==
    /\ rpc = "route"
    /\ IF IsNotification(rpacket, rcallbacks)
       THEN /\ callback_threads' =
                  Append(callback_threads,
                         [target |-> rcallbacks[rpacket.atthandle],
                          args |-> rpacket.value, seq |-> rpacket.seq])
            /\ UNCHANGED recvr_queue
       ELSE IF rpacket.kind # att_value
       THEN /\ recvr_queue' = Append(recvr_queue, rpacket)
            /\ UNCHANGED callback_threads
       ELSE UNCHANGED <<recvr_queue, callback_threads>>
    /\ rpc' = "read"
    /\ UNCHANGED <<st, callbacks, lock, rpacket, rcallbacks, nrecv,
                   caller_vars, thread_vars, timer_vars>>

\* _recv_packets deciding on self._callbacks instead of its copy
_recv_packets_route_live ==
    /\ rpc = "route"
    /\ IF IsNotification(rpacket, callbacks)
       THEN /\ callback_threads' =
                  Append(callback_threads,
                         [target |-> callbacks[rpacket.atthandle],
                          args |-> rpacket.value, seq |-> rpacket.seq])
            /\ UNCHANGED recvr_queue
       ELSE /\ recvr_queue' = Append(recvr_queue, rpacket)
            /\ UNCHANGED callback_threads
    /\ rpc' = "read"
    /\ UNCHANGED <<st, callbacks, lock, rpacket, rcallbacks, nrecv,
                   caller_vars, thread_vars, timer_vars>>

\* the packet is put on the queue, or its callback is started in a thread
_recv_packets_route ==
    /\ rpc = "route"
    /\ IF IsNotification(rpacket, rcallbacks)
       THEN /\ callback_threads' =
                  Append(callback_threads,
                         [target |-> rcallbacks[rpacket.atthandle],
                          args |-> rpacket.value, seq |-> rpacket.seq])
            /\ UNCHANGED recvr_queue
       ELSE /\ recvr_queue' = Append(recvr_queue, rpacket)
            /\ UNCHANGED callback_threads
    /\ rpc' = "read"
    /\ UNCHANGED <<st, callbacks, lock, rpacket, rcallbacks, nrecv,
                   caller_vars, thread_vars, timer_vars>>


(***************************************************************************)
(* Initial states.                                                         *)
(***************************************************************************)
NoPacket == [kind |-> "none", seq |-> 0]
NoCall == [op |-> "none"]
NoSnapshot ==
    [queued |-> {}, connected |-> FALSE, encrypted |-> FALSE,
     bonded |-> FALSE]

\* the state a successful connect() leaves: the connection status event of
\* connection 1 with the connected flag has been handled
ConnectedState == [InitState EXCEPT !.connected = TRUE, !.connection_handle = 1]

InitWith(states) ==
    /\ st \in states
    /\ callbacks = <<>>
    /\ lock = "free"
    /\ recvr_queue = <<>>
    /\ callback_threads = <<>>
    /\ rpc = "read"
    /\ rpacket = NoPacket
    /\ rcallbacks = <<>>
    /\ call = NoCall
    /\ pc = Idle
    /\ outcome = "none"
    /\ ret = PyNone
    /\ sent = <<>>
    /\ handled = <<>>
    /\ returned = 0
    /\ wstage = "check"
    /\ elapsed = 0
    /\ polled = 0
    /\ nrecv = 0
    /\ ncalls = 0
    /\ ser = "open"
    /\ recvr_thread_stop = FALSE
    /\ recvr_thread_is_done = FALSE
    /\ callbacks_returned = {}
    /\ lib_buffer = <<>>
    /\ ser_in = <<>>
    /\ original = NoPacket
    /\ at_call = NoSnapshot

(***************************************************************************)
(* The steps of the two contexts, for the calls and packets of a           *)
(* specification.                                                          *)
(***************************************************************************)
Caller(calls) ==
    \/ \E a \in calls : Call(a)
    \/ _process_packets_until

\* the loop of a wait that is given a timeout
TimedWaiter ==
    \/ _process_packets_until_check
    \/ _process_packets_until_empty
    \/ Tick

\* the end of subscribe: the callback is registered under the lock
Subscriber ==
    \/ subscribe_acquire
    \/ subscribe_insert
    \/ subscribe_release

Receiver(packets) ==
    \/ \E p \in packets : _recv_packets_read(p)
    \/ _recv_packets_acquire
    \/ _recv_packets_copy
    \/ _recv_packets_release
    \/ _recv_packets_route

(***************************************************************************)
(* Spec: notifications and attribute operations on an open connection.     *)
(***************************************************************************)
CCCD == "client_characteristic_configuration"

\* a characteristic with a client characteristic configuration descriptor,
\* and one without
CharNotify == [handle |-> 1, descriptors |-> <<Descriptor(2, CCCD, CCCD)>>]
CharPlain ==
    [handle |-> 3,
     descriptors |-> <<Descriptor(4, "characteristic_user_description",
                                  "characteristic_user_description")>>]

Subscribe(c, n, i, cb) ==
    [op |-> "subscribe", characteristic |-> c, notifications |-> n,
     indications |-> i, callback |-> cb]

AttributeCalls ==
    {Subscribe(CharNotify, TRUE, FALSE, "on_notify"),
     Subscribe(CharNotify, TRUE, FALSE, None),
     Subscribe(CharNotify, FALSE, FALSE, "on_notify"),
     Subscribe(CharNotify, TRUE, TRUE, "on_notify"),
     Subscribe(CharPlain, TRUE, FALSE, "on_notify")}

AttributePackets ==
    {Rsp("ble_rsp_attclient_attribute_write", 0),
     EvtProcedureCompleted(0),
     EvtAttributeValue(1, "v1"),
     EvtAttributeValue(3, "v2"),
     EvtFindInformationFound(5, "characteristic")}

Init == InitWith({ConnectedState})

Next == Caller(AttributeCalls) \/ Subscriber \/ Receiver(AttributePackets)

Spec == Init /\ [][Next]_vars


(***************************************************************************)
(* SpecConnect: connect(), from construction, with its timeout.            *)
(***************************************************************************)
ConnectCalls == {[op |-> "connect", timeout |-> T] : T \in 0..MaxTimeout}

ConnectPackets ==
    {Rsp("ble_rsp_gap_connect_direct", 0),
     EvtConnectionStatus(1, FlagConnected + 4),
     EvtOther,
     EvtFindInformationFound(5, "characteristic")}

InitConnect == InitWith({InitState})

NextConnect ==
    Caller(ConnectCalls) \/ TimedWaiter \/ Receiver(ConnectPackets)

SpecConnect == InitConnect /\ [][NextConnect]_vars

(***************************************************************************)
(* SpecDisconnect: disconnect(), with or without a connection.             *)
(***************************************************************************)
DisconnectCalls == {[op |-> "disconnect", fail_quietly |-> q] : q \in BOOLEAN}

DisconnectPackets ==
    {Rsp("ble_rsp_connection_disconnect", 0),
     Rsp("ble_rsp_connection_disconnect", 390),
     EvtDisconnected(0),
     EvtOther,
     EvtFindInformationFound(5, "characteristic")}

InitDisconnect == InitWith({InitState, ConnectedState})

NextDisconnect == Caller(DisconnectCalls) \/ Receiver(DisconnectPackets)

SpecDisconnect == InitDisconnect /\ [][NextDisconnect]_vars

(***************************************************************************)
(* SpecGuard: the operations that need a connection, with and without one. *)
(***************************************************************************)
NeedConnection ==
    {"bond", "encrypt", "discover_attributes", "attribute_read",
     "attribute_write", "get_rssi"}

GuardCalls ==
    {[op |-> "bond"], [op |-> "encrypt"], [op |-> "discover_attributes"],
     [op |-> "attribute_read", attribute |-> CharNotify],
     [op |-> "attribute_write", attribute |-> CharNotify, value |-> "v1"],
     [op |-> "get_rssi"]}

GuardPackets ==
    {RspSetBondableMode,
     Rsp("ble_rsp_attclient_find_information", 0),
     EvtFindInformationFound(1, "primary_service"),
     EvtDisconnected(8)}

InitGuard == InitWith({InitState, ConnectedState})

NextGuard == Caller(GuardCalls) \/ Receiver(GuardPackets)

SpecGuard == InitGuard /\ [][NextGuard]_vars

(***************************************************************************)
(* SpecRssi: get_rssi() on an open connection.                             *)
(***************************************************************************)
RssiCalls == {[op |-> "get_rssi"]}

RssiPackets ==
    {RspRssi(RssiSentinel),
     RspRssi(-60),
     EvtDisconnected(8),
     EvtFindInformationFound(5, "characteristic")}

InitRssi == InitWith({ConnectedState})

NextRssi == Caller(RssiCalls) \/ Receiver(RssiPackets)

SpecRssi == InitRssi /\ [][NextRssi]_vars

(***************************************************************************)
(* SpecRead: attribute_read() on an open connection.                       *)
(***************************************************************************)
ReadCalls == {[op |-> "attribute_read", attribute |-> CharNotify]}

ReadPackets ==
    {Rsp("ble_rsp_attclient_read_by_handle", 0),
     EvtAttributeValue(1, "v1"),
     EvtAttributeValue(1, "v2"),
     EvtProcedureCompleted(1),
     EvtDisconnected(8)}

InitRead == InitWith({ConnectedState})

NextRead == Caller(ReadCalls) \/ Receiver(ReadPackets)

SpecRead == InitRead /\ [][NextRead]_vars

(***************************************************************************)
(* SpecWrite: attribute_write() on an open connection.                     *)
(***************************************************************************)
WriteCalls ==
    {[op |-> "attribute_write", attribute |-> CharNotify, value |-> "v1"]}

WritePackets ==
    {Rsp("ble_rsp_attclient_attribute_write", 0),
     Rsp("ble_rsp_attclient_attribute_write", 1),
     EvtProcedureCompleted(0),
     EvtProcedureCompleted(1),
     EvtDisconnected(8)}

InitWrite == InitWith({ConnectedState})

NextWrite == Caller(WriteCalls) \/ Receiver(WritePackets)

SpecWrite == InitWrite /\ [][NextWrite]_vars

(***************************************************************************)
(* SpecBond: bond() on an open connection.                                 *)
(***************************************************************************)
BondCalls == {[op |-> "bond"]}

BondPackets ==
    {RspSetBondableMode,
     Rsp("ble_rsp_sm_encrypt_start", 0),
     EvtBondStatus(1),
     EvtConnectionStatus(1, FlagConnected + FlagEncrypted),
     EvtBondingFail(774),
     EvtDisconnected(8)}

InitBond == InitWith({ConnectedState})

NextBond == Caller(BondCalls) \/ Receiver(BondPackets)

SpecBond == InitBond /\ [][NextBond]_vars

(***************************************************************************)
(* SpecBonds: list_bonds(), also after a bond() that the connection's end  *)
(* cut short.                                                              *)
(***************************************************************************)
BondsCalls == {[op |-> "list_bonds"], [op |-> "bond"]}

BondsPackets ==
    {RspGetBonds(0),
     RspGetBonds(2),
     EvtBondStatus(7),
     EvtBondStatus(8),
     EvtDisconnected(8)}

InitBonds == InitWith({ConnectedState})

NextBonds == Caller(BondsCalls) \/ Receiver(BondsPackets)

SpecBonds == InitBonds /\ [][NextBonds]_vars

(***************************************************************************)
(* SpecSubscribe: subscribe() with every combination of its options, for a *)
(* characteristic with and one without a configuration descriptor.         *)
(***************************************************************************)
SubscribeCalls ==
    {Subscribe(c, n, i, "on_notify") :
        c \in {CharNotify, CharPlain}, n \in BOOLEAN, i \in BOOLEAN}

SubscribePackets ==
    {Rsp("ble_rsp_attclient_attribute_write", 0),
     EvtProcedureCompleted(0),
     EvtDisconnected(8)}

InitSubscribe == InitWith({ConnectedState})

NextSubscribe ==
    Caller(SubscribeCalls) \/ Subscriber \/ Receiver(SubscribePackets)

SpecSubscribe == InitSubscribe /\ [][NextSubscribe]_vars

(***************************************************************************)
(* SpecHandlers: the handlers of find-information-found events applied to  *)
(* a sequence of events, from the empty accumulator of construction.  The  *)
(* n-th event carries attribute handle n.                                  *)
(***************************************************************************)
\* self._packet_handlers[packet_type](args) for one event, outside any wait
HandleEvent(p) ==
    /\ Len(handled) < MaxEvents
    /\ LET h == _packet_handlers(st, p) IN
        /\ st' = h.s
        /\ outcome' = h.exc
    /\ handled' = Append(handled, [n |-> 0, k |-> 0,
                                   packet |-> Tagged(p, Len(handled) + 1)])
    /\ UNCHANGED <<callbacks, lock, recvr_queue, callback_threads, recvr_vars, thread_vars,
                   call, pc, ret, sent, returned, ncalls, timer_vars>>

FindUuids ==
    {"primary_service", "secondary_service", "characteristic",
     "client_characteristic_configuration", "unrecognized_16"}

InitHandlers == InitWith({InitState})

NextHandlers ==
    \E u \in FindUuids :
        HandleEvent(EvtFindInformationFound(Len(handled) + 1, u))

SpecHandlers == InitHandlers /\ [][NextHandlers]_vars

(***************************************************************************)
(* Scanning: scan-response events of two senders, whose addresses are each *)
(* other's reversal, in both packet kinds, handed to the handler.  The     *)
(* advertising data are ASCII: no field, one flags field, the name "AB",   *)
(* the short name "C" with a tx power, flags with "AB" and a tx power, and *)
(* a field of a type that ScanResponseDataType does not list.              *)
(***************************************************************************)
ScanData ==
    {<<>>,
     <<2, 1, 6>>,
     <<3, 9, 65, 66>>,
     <<2, 8, 67, 2, 10, 4>>,
     <<2, 1, 6, 3, 9, 65, 66, 2, 10, 4>>,
     <<2, 200, 1>>}

ScanPackets ==
    {EvtScanResponse(40, t, a, d) :
        t \in DOMAIN ScanResponsePacketType,
        a \in {<<1, 2, 3, 4, 5, 6>>, <<6, 5, 4, 3, 2, 1>>},
        d \in ScanData}

NextScan ==
    \E p \in ScanPackets :
        /\ Len(handled) < MaxScans
        /\ HandleEvent(p)

SpecScan == InitHandlers /\ [][NextScan]_vars

(***************************************************************************)
(* SpecFlags: connection events handed to their handlers, from the state   *)
(* after construction and from the state in which bond() waits on a        *)
(* connection, so that a disconnected event meets every combination of the *)
(* flags it clears.                                                        *)
(***************************************************************************)
FlagEvents ==
    {EvtConnectionStatus(1, FlagConnected + FlagEncrypted),
     EvtConnectionStatus(2, FlagEncrypted),
     EvtBondStatus(1),
     EvtBondingFail(774),
     EvtDisconnected(0),
     EvtDisconnected(8)}

InitFlags ==
    InitWith({InitState, [ConnectedState EXCEPT !.bond_expected = TRUE]})

NextFlags == \E p \in FlagEvents : HandleEvent(p)

SpecFlags == InitFlags /\ [][NextFlags]_vars

(***************************************************************************)
(* SpecLost: the operations that need a connection, each able to pass its  *)
(* responses, with the connection's end arriving in any of their waits.    *)
(***************************************************************************)
LostPackets ==
    {RspSetBondableMode,
     Rsp("ble_rsp_sm_encrypt_start", 0),
     Rsp("ble_rsp_attclient_find_information", 0),
     Rsp("ble_rsp_attclient_read_by_handle", 0),
     Rsp("ble_rsp_attclient_attribute_write", 0),
     RspRssi(RssiSentinel),
     EvtDisconnected(8)}

\* one operation is called, on the connection as connect() left it
NextLost ==
    \/ \E a \in GuardCalls : ncalls = 0 /\ Call(a)
    \/ _process_packets_until
    \/ Receiver(LostPackets)

SpecLost == InitBond /\ [][NextLost]_vars

(***************************************************************************)
(* SpecEncrypt: encrypt() on an open connection.                           *)
(***************************************************************************)
EncryptPackets ==
    {RspSetBondableMode,
     Rsp("ble_rsp_sm_encrypt_start", 0),
     Rsp("ble_rsp_sm_encrypt_start", 385),
     EvtConnectionStatus(1, FlagConnected),
     EvtConnectionStatus(1, FlagConnected + FlagEncrypted),
     EvtDisconnected(8)}

NextEncrypt == Caller({[op |-> "encrypt"]}) \/ Receiver(EncryptPackets)

SpecEncrypt == InitBond /\ [][NextEncrypt]_vars

(***************************************************************************)
(* The callback threads: threading.Thread(target=callback, args=(value,)). *)
(* A target is the subscriber's function; it runs in its thread, touches   *)
(* nothing of the backend, and returns.                                    *)
(***************************************************************************)
\* the callback threads whose target has not returned
Running ==
    {i \in 1..Len(callback_threads) :
        callback_threads[i].seq \notin callbacks_returned}

\* the target of a callback thread returns
callback_thread_run ==
    \E i \in Running :
        /\ callbacks_returned' = callbacks_returned \cup {callback_threads[i].seq}
        /\ UNCHANGED <<st, callbacks, lock, recvr_queue, callback_threads,
                       recvr_vars, caller_vars, timer_vars, codec_vars,
                       at_call, ser,
                       recvr_thread_stop, recvr_thread_is_done>>

(***************************************************************************)
(* SpecThreads: a subscription and a read on an open connection, with the  *)
(* callback threads of the notifications.                                  *)
(***************************************************************************)
ThreadCalls ==
    {Subscribe(CharNotify, TRUE, FALSE, "on_notify"),
     [op |-> "attribute_read", attribute |-> CharPlain]}

ThreadPackets ==
    {Rsp("ble_rsp_attclient_attribute_write", 0),
     EvtProcedureCompleted(0),
     EvtAttributeValue(1, "v1"),
     Rsp("ble_rsp_attclient_read_by_handle", 1025)}

NextThreads ==
    \/ Caller(ThreadCalls)
    \/ Subscriber
    \/ Receiver(ThreadPackets)
    \/ callback_thread_run

SpecThreads == InitBond /\ [][NextThreads]_vars

(***************************************************************************)
(* start() and stop(), and the loop of _recv_packets with its test of the  *)
(* stop event and its read of the transport as steps of their own.  rpc is *)
(* "unstarted" before the thread is started, "read" at the top of the      *)
(* loop, "ser_read" in self._ser.read(), "is_done" past the loop and       *)
(* "stopped" when the thread has ended.  One receiver thread is modelled:  *)
(* start() is called when none is running.                                 *)
(***************************************************************************)
\* start(): the transport is opened, the two events are cleared, the
\* receiver thread is started, and disconnect(fail_quietly=True) sends its
\* command
start_call ==
    /\ pc.at = "idle"
    /\ ncalls < MaxCalls
    /\ rpc \in {"unstarted", "stopped"}
    /\ ser' = "open"
    /\ recvr_thread_stop' = FALSE
    /\ recvr_thread_is_done' = FALSE
    /\ rpc' = "read"
    /\ LET r == Operation(0, st, [op |-> "start"]) IN
        /\ st' = r.s
        /\ pc' = r.pc
        /\ outcome' = r.out
        /\ ret' = r.val
        /\ sent' = r.cmds
    /\ call' = [op |-> "start"]
    /\ returned' = 0
    /\ ncalls' = ncalls + 1
    /\ UNCHANGED <<callbacks, lock, recvr_queue, callback_threads, rpacket,
                   rcallbacks, nrecv, handled, timer_vars, codec_vars,
                   at_call, callbacks_returned>>

\* stop(): self._recvr_thread_stop.set()
stop_set ==
    /\ pc.at = "idle"
    /\ ncalls < MaxCalls
    /\ recvr_thread_stop' = TRUE
    /\ pc' = [at |-> "is_done_wait"]
    /\ call' = [op |-> "stop"]
    /\ outcome' = "running"
    /\ ret' = PyNone
    /\ sent' = <<>>
    /\ returned' = 0
    /\ ncalls' = ncalls + 1
    /\ UNCHANGED <<st, callbacks, lock, recvr_queue, callback_threads,
                   recvr_vars, handled, timer_vars, codec_vars, at_call, ser,
                   recvr_thread_is_done,
                   callbacks_returned>>

\* stop() closing the transport without waiting for the receiver
stop_close_no_wait ==
    /\ pc.at = "is_done_wait"
    /\ IF ser = "None"
       THEN /\ pc' = Idle
            /\ outcome' = "AttributeError"
            /\ UNCHANGED ser
       ELSE /\ pc' = [at |-> "close"]
            /\ ser' = "closed"
            /\ UNCHANGED outcome
    /\ UNCHANGED <<st, callbacks, lock, recvr_queue, callback_threads,
                   recvr_vars, call, ret, sent, handled, returned, ncalls,
                   timer_vars, codec_vars, at_call, recvr_thread_stop,
                   recvr_thread_is_done,
                   callbacks_returned>>

\* stop(): self._recvr_thread_is_done.wait() returns, and self._ser.close()
\* (AttributeError when self._ser is None)
stop_close ==
    /\ pc.at = "is_done_wait"
    /\ recvr_thread_is_done
    /\ IF ser = "None"
       THEN /\ pc' = Idle
            /\ outcome' = "AttributeError"
            /\ UNCHANGED ser
       ELSE /\ pc' = [at |-> "close"]
            /\ ser' = "closed"
            /\ UNCHANGED outcome
    /\ UNCHANGED <<st, callbacks, lock, recvr_queue, callback_threads,
                   recvr_vars, call, ret, sent, handled, returned, ncalls,
                   timer_vars, codec_vars, at_call, recvr_thread_stop,
                   recvr_thread_is_done,
                   callbacks_returned>>

\* stop(): self._ser = None, self._recvr_thread = None, and it returns
stop_return ==
    /\ pc.at = "close"
    /\ ser' = "None"
    /\ pc' = Idle
    /\ outcome' = "ok"
    /\ UNCHANGED <<st, callbacks, lock, recvr_queue, callback_threads,
                   recvr_vars, call, ret, sent, handled, returned, ncalls,
                   timer_vars, codec_vars, at_call, recvr_thread_stop,
                   recvr_thread_is_done,
                   callbacks_returned>>

\* the loop of _recv_packets going on whatever the stop event says
_recv_packets_while_forever ==
    /\ rpc = "read"
    /\ rpc' = "ser_read"
    /\ UNCHANGED <<st, callbacks, lock, recvr_queue, callback_threads, rpacket,
                   rcallbacks, nrecv, caller_vars, thread_vars, timer_vars>>

\* while not self._recvr_thread_stop.is_set()
_recv_packets_while ==
    /\ rpc = "read"
    /\ rpc' = IF recvr_thread_stop THEN "is_done" ELSE "ser_read"
    /\ UNCHANGED <<st, callbacks, lock, recvr_queue, callback_threads, rpacket,
                   rcallbacks, nrecv, caller_vars, thread_vars, timer_vars>>

\* byte = self._ser.read() returns within its timeout: with no byte or a
\* byte that completes no packet, or with the byte that completes packet p
_recv_packets_ser_read(packets) ==
    /\ rpc = "ser_read"
    /\ \/ /\ rpc' = "read"
          /\ UNCHANGED <<rpacket, nrecv>>
       \/ \E p \in packets :
             /\ nrecv < MaxPackets
             /\ rpacket' = Tagged(p, nrecv + 1)
             /\ rpc' = "acquire"
             /\ nrecv' = nrecv + 1
    /\ UNCHANGED <<st, callbacks, lock, recvr_queue, callback_threads,
                   rcallbacks, caller_vars, thread_vars, timer_vars>>

\* self._recvr_thread_is_done.set(), and the thread ends
_recv_packets_is_done ==
    /\ rpc = "is_done"
    /\ recvr_thread_is_done' = TRUE
    /\ rpc' = "stopped"
    /\ UNCHANGED <<st, callbacks, lock, recvr_queue, callback_threads, rpacket,
                   rcallbacks, nrecv, caller_vars, timer_vars, codec_vars,
                   at_call, ser,
                   recvr_thread_stop, callbacks_returned>>

ReceiverLoop(packets) ==
    \/ _recv_packets_while
    \/ _recv_packets_ser_read(packets)
    \/ _recv_packets_acquire
    \/ _recv_packets_copy
    \/ _recv_packets_release
    \/ _recv_packets_route
    \/ _recv_packets_is_done

(***************************************************************************)
(* SpecStop: start() and stop(), from the backend as constructed and from  *)
(* the backend as a start() left it.                                       *)
(***************************************************************************)
\* no connection is open when start() disconnects: the command fails
StopPackets ==
    {Rsp("ble_rsp_connection_disconnect", 390),
     Rsp("ble_rsp_gap_set_mode", 0),
     Rsp("ble_rsp_gap_end_procedure", 0),
     RspSetBondableMode}

\* __init__: no transport, no receiver thread, both events clear
InitStop ==
    \/ InitHandlers
    \/ /\ st = InitState
       /\ callbacks = <<>>
       /\ lock = "free"
       /\ recvr_queue = <<>>
       /\ callback_threads = <<>>
       /\ rpc = "unstarted"
       /\ rpacket = NoPacket
       /\ rcallbacks = <<>>
       /\ call = NoCall
       /\ pc = Idle
       /\ outcome = "none"
       /\ ret = PyNone
       /\ sent = <<>>
       /\ handled = <<>>
       /\ returned = 0
       /\ wstage = "check"
       /\ elapsed = 0
       /\ polled = 0
       /\ nrecv = 0
       /\ ncalls = 0
       /\ ser = "None"
       /\ recvr_thread_stop = FALSE
       /\ recvr_thread_is_done = FALSE
       /\ callbacks_returned = {}
       /\ lib_buffer = <<>>
       /\ ser_in = <<>>
       /\ original = NoPacket
       /\ at_call = NoSnapshot

Stopper == stop_set \/ stop_close \/ stop_return

NextStop ==
    \/ start_call
    \/ _process_packets_until
    \/ Stopper
    \/ ReceiverLoop(StopPackets)

SpecStop == InitStop /\ [][NextStop]_vars

\* the receiver thread and the thread that called stop() are scheduled: a
\* step either can take for ever is taken
SpecStopFair ==
    /\ SpecStop
    /\ WF_vars(ReceiverLoop(StopPackets))
    /\ WF_vars(stop_close \/ stop_return)

(***************************************************************************)
(* SpecCodec: the module writes encoded packets to the serial line and the *)
(* receiver loop reads them a byte at a time.  BGLib (bglib.py) is not     *)
(* part of bgapi.py: the frame is the one its documentation describes, a   *)
(* header of four bytes (direction, payload length, class, id) and then    *)
(* the payload, laid out per packet type.                                  *)
(***************************************************************************)
HeaderSize == 4

\* direction (0 a response, 128 an event), class and id of a packet type
PacketHeader(kind) ==
    CASE kind = "ble_rsp_sm_set_bondable_mode" -> <<0, 5, 1>>
      [] kind = "ble_rsp_attclient_attribute_write" -> <<0, 4, 5>>
      [] kind = "ble_evt_attclient_attribute_value" -> <<128, 4, 5>>
      [] kind = "ble_evt_connection_status" -> <<128, 3, 0>>

\* the payload of a packet type: the args the handlers read, in order
PacketLayout(kind) ==
    CASE kind = "ble_rsp_sm_set_bondable_mode" -> <<>>
      [] kind = "ble_rsp_attclient_attribute_write" ->
             <<[name |-> "result", type |-> "uint16"]>>
      [] kind = "ble_evt_attclient_attribute_value" ->
             <<[name |-> "atthandle", type |-> "uint16"],
               [name |-> "value", type |-> "uint8array"]>>
      [] kind = "ble_evt_connection_status" ->
             <<[name |-> "connection", type |-> "uint8"],
               [name |-> "flags", type |-> "uint8"]>>

CodecKinds ==
    {"ble_rsp_sm_set_bondable_mode", "ble_rsp_attclient_attribute_write",
     "ble_evt_attclient_attribute_value", "ble_evt_connection_status"}

\* a fixed-width integer in the wire's byte order (low byte first), a byte
\* array behind its length
EncodeField(type, v) ==
    CASE type = "uint8" -> <<v>>
      [] type = "uint16" -> <<v % 256, v \div 256>>
      [] type = "uint8array" -> <<Len(v)>> \o v

RECURSIVE EncodeFields(_, _)
EncodeFields(p, layout) ==
    IF layout = <<>> THEN <<>>
    ELSE EncodeField(Head(layout).type, p[Head(layout).name])
             \o EncodeFields(p, Tail(layout))

\* the framed bytes of packet p
encode_packet(p) ==
    LET payload == EncodeFields(p, PacketLayout(p.kind))
        h == PacketHeader(p.kind)
    IN <<h[1], Len(payload), h[2], h[3]>> \o payload

\* BGLib.parse_byte: the byte is kept; the packet is returned, and the
\* buffer emptied, once the payload the header declares has arrived.
\* packet = <<>> stands for None
parse_byte(buffer, byte) ==
    LET b == Append(buffer, byte)
    IN IF Len(b) >= HeaderSize /\ Len(b) = HeaderSize + b[2]
       THEN [buffer |-> <<>>, packet |-> b]
       ELSE [buffer |-> b, packet |-> <<>>]

\* the bytes a field of this type takes at the head of the payload
FieldSize(type, payload) ==
    CASE type = "uint8" -> 1
      [] type = "uint16" -> 2
      [] type = "uint8array" -> 1 + payload[1]

DecodeField(type, bytes) ==
    CASE type = "uint8" -> bytes[1]
      [] type = "uint16" -> bytes[1] + 256 * bytes[2]
      [] type = "uint8array" -> Tail(bytes)

RECURSIVE DecodeFields(_, _)
DecodeFields(payload, layout) ==
    IF layout = <<>> THEN <<>>
    ELSE LET f == Head(layout)
             n == FieldSize(f.type, payload)
         IN (f.name :> DecodeField(f.type, SubSeq(payload, 1, n)))
                @@ DecodeFields(SubSeq(payload, n + 1, Len(payload)),
                                Tail(layout))

\* BGLib.decode_packet: the packet type of the header and the args of the
\* payload
decode_packet(packet) ==
    LET kind == CHOOSE k \in CodecKinds :
                    PacketHeader(k) = <<packet[1], packet[3], packet[4]>>
    IN [kind |-> kind]
           @@ DecodeFields(SubSeq(packet, HeaderSize + 1, Len(packet)),
                           PacketLayout(kind))

CodecPackets ==
    {RspSetBondableMode,
     Rsp("ble_rsp_attclient_attribute_write", 385),
     EvtAttributeValue(1, <<7, 9>>),
     EvtConnectionStatus(1, 3)}

\* the module sends packet p: its bytes are on the line
ser_write(p) ==
    /\ ser_in = <<>>
    /\ nrecv < MaxPackets
    /\ ser_in' = encode_packet(p)
    /\ original' = p
    /\ UNCHANGED <<st, callbacks, lock, recvr_queue, callback_threads,
                   recvr_vars, caller_vars, timer_vars, lib_buffer, at_call,
                   ser,
                   recvr_thread_stop, recvr_thread_is_done,
                   callbacks_returned>>

\* the loop of _recv_packets handing on whatever parse_byte returns
_recv_packets_parse_byte_unchecked ==
    /\ rpc = "ser_read"
    /\ \/ /\ rpc' = "read"
          /\ UNCHANGED <<rpacket, nrecv, lib_buffer, ser_in>>
       \/ /\ ser_in # <<>>
          /\ LET r == parse_byte(lib_buffer, Head(ser_in))
             IN /\ lib_buffer' = r.buffer
                /\ ser_in' = Tail(ser_in)
                /\ rpacket' = Tagged(IF r.packet = <<>> THEN NoPacket
                                     ELSE decode_packet(r.packet), nrecv + 1)
                /\ rpc' = "acquire"
                /\ nrecv' = nrecv + 1
    /\ UNCHANGED <<st, callbacks, lock, recvr_queue, callback_threads,
                   rcallbacks, caller_vars, timer_vars, original, at_call, ser,
                   recvr_thread_stop, recvr_thread_is_done,
                   callbacks_returned>>

\* byte = self._ser.read() returns within its timeout, with no byte or with
\* the next byte of the line; the byte goes to parse_byte, and a packet it
\* returns to decode_packet
_recv_packets_parse_byte ==
    /\ rpc = "ser_read"
    /\ \/ /\ rpc' = "read"
          /\ UNCHANGED <<rpacket, nrecv, lib_buffer, ser_in>>
       \/ /\ ser_in # <<>>
          /\ LET r == parse_byte(lib_buffer, Head(ser_in))
             IN /\ lib_buffer' = r.buffer
                /\ ser_in' = Tail(ser_in)
                /\ IF r.packet = <<>>
                   THEN /\ rpc' = "read"
                        /\ UNCHANGED <<rpacket, nrecv>>
                   ELSE /\ rpacket' = Tagged(decode_packet(r.packet),
                                             nrecv + 1)
                        /\ rpc' = "acquire"
                        /\ nrecv' = nrecv + 1
    /\ UNCHANGED <<st, callbacks, lock, recvr_queue, callback_threads,
                   rcallbacks, caller_vars, timer_vars, original, at_call, ser,
                   recvr_thread_stop, recvr_thread_is_done,
                   callbacks_returned>>

NextCodec ==
    \/ \E p \in CodecPackets : ser_write(p)
    \/ _recv_packets_while
    \/ _recv_packets_parse_byte
    \/ _recv_packets_acquire
    \/ _recv_packets_copy
    \/ _recv_packets_release
    \/ _recv_packets_route

SpecCodec == InitHandlers /\ [][NextCodec]_vars

(***************************************************************************)
(* SpecReads: reads of a characteristic that has a notification callback   *)
(* and of one that has none, on an open connection; the only attribute     *)
(* value events are for the handle that can be subscribed to.              *)
(***************************************************************************)
ReadsCalls ==
    {Subscribe(CharNotify, TRUE, FALSE, "on_notify"),
     [op |-> "attribute_read", attribute |-> CharNotify],
     [op |-> "attribute_read", attribute |-> CharPlain]}

ReadsPackets ==
    {Rsp("ble_rsp_attclient_attribute_write", 0),
     EvtProcedureCompleted(0),
     Rsp("ble_rsp_attclient_read_by_handle", 0),
     EvtAttributeValue(1, "v1")}

NextReads ==
    \/ Caller(ReadsCalls)
    \/ Subscriber
    \/ Receiver(ReadsPackets)

SpecReads == InitBond /\ [][NextReads]_vars

\* the caller and the receiver thread are scheduled: the caller's wait pops
\* a packet that is in the queue, and the receiver routes a packet it has
\* completed.  Nothing is assumed of what the module sends.  Each step
\* changes the variable its fairness condition is subscripted with.
SpecReadsFair ==
    /\ SpecReads
    /\ WF_<<Len(handled)>>(_process_packets_until)
    /\ WF_<<pc.at>>(Subscriber)
    /\ WF_<<rpc>>(_recv_packets_acquire \/ _recv_packets_copy
                     \/ _recv_packets_release \/ _recv_packets_route)

(***************************************************************************)
(* SpecStatus: connect(), from construction, with connection status events *)
(* that carry the connected flag and one that does not.                    *)
(***************************************************************************)
StatusPackets ==
    {Rsp("ble_rsp_gap_connect_direct", 0),
     EvtConnectionStatus(1, FlagConnected),
     EvtConnectionStatus(2, FlagEncrypted)}

NextStatus ==
    Caller(ConnectCalls) \/ TimedWaiter \/ Receiver(StatusPackets)

SpecStatus == InitConnect /\ [][NextStatus]_vars

(***************************************************************************)
(* SpecScans: scan(), on the backend as constructed and on the backend as  *)
(* an earlier scan() that handled one scan response left it.               *)
(***************************************************************************)
ScansCalls == {[op |-> "scan"]}

ScansPackets ==
    {Rsp("ble_rsp_gap_set_scan_parameters", 0),
     Rsp("ble_rsp_gap_discover", 0),
     Rsp("ble_rsp_gap_end_procedure", 0),
     EvtScanResponse(40, 0, <<6, 5, 4, 3, 2, 1>>, <<3, 9, 65, 66>>)}

\* the state an earlier scan() left: its waits handled one scan response,
\* of the device at 01:02:03:04:05:06
ScannedState ==
    _ble_evt_gap_scan_response(
        InitState, EvtScanResponse(40, 0, <<1, 2, 3, 4, 5, 6>>, <<>>)).s

InitScans == InitWith({InitState, ScannedState})

NextScans == Caller(ScansCalls) \/ Receiver(ScansPackets)

SpecScans == InitScans /\ [][NextScans]_vars

(***************************************************************************)
(* SpecNoted: disconnect() and attribute_write(), with or without a        *)
(* connection, each call noting the queue and the flags it begins with.    *)
(* The connection can end at any time, called for or not.                  *)
(***************************************************************************)
NotedCalls ==
    DisconnectCalls
        \cup {[op |-> "attribute_write", attribute |-> CharNotify,
               value |-> "v1"]}

NotedPackets ==
    {Rsp("ble_rsp_connection_disconnect", 0),
     Rsp("ble_rsp_connection_disconnect", 390),
     Rsp("ble_rsp_attclient_attribute_write", 0),
     EvtDisconnected(8)}

NextNoted ==
    \/ \E a \in NotedCalls : CallNoted(a)
    \/ _process_packets_until
    \/ Receiver(NotedPackets)

SpecNoted == InitDisconnect /\ [][NextNoted]_vars

(***************************************************************************)
(* Properties.                                                             *)
(***************************************************************************)
\* the fields of the state that only handlers write while an operation waits
\* (the operations reset the three flags themselves)
HandlerVisible(s) ==
    [s EXCEPT !.bonding_fail = FALSE, !.procedure_completed = FALSE,
              !.attribute_value_received = FALSE]

\* C1: every step of a wait pops the head of the receive queue and leaves the
\* packets behind it in the queue in their order; the popped packet's handler
\* has run, whether or not the packet's type is accepted; and the wait returns
\* in that step exactly if the packet's type is accepted, and otherwise goes
\* on waiting (unless the handler raised).
C1_WaitHandlesUntilAccepted ==
    [][Len(handled') # Len(handled) =>
        /\ pc.at = "wait"
        /\ recvr_queue # <<>>
        /\ LET packet == Head(recvr_queue)
               h == _packet_handlers(st, packet)
               accepted == packet.kind \in expected_packet_choices(call, pc.k)
           IN /\ handled' = Append(handled, [n |-> ncalls, k |-> pc.k,
                                             packet |-> packet])
              /\ recvr_queue' = Tail(recvr_queue)
              /\ HandlerVisible(st') = HandlerVisible(h.s)
              /\ (returned' = returned + 1) <=> accepted
              /\ (returned' = returned) <=> ~accepted
              /\ (~accepted /\ h.exc = "none") =>
                    (pc' = pc /\ outcome' = "running" /\ sent' = sent)]_vars

\* C1 witness: a wait has returned on the second packet it popped, the first
\* not being of an accepted type, and a packet is still queued behind them.
C1_Witness ==
    /\ Len(handled) = 2
    /\ returned = 1
    /\ handled[1].n = ncalls /\ handled[2].n = ncalls
    /\ handled[1].k = 1 /\ handled[2].k = 1
    /\ handled[1].packet.kind \notin expected_packet_choices(call, 1)
    /\ handled[2].packet.kind \in expected_packet_choices(call, 1)
    /\ st.attribute_value = "v2"
    /\ recvr_queue # <<>>

\* the attribute value packet the receiver is about to route is a
\* notification by the copy of the registry taken for it
RoutesNotification ==
    /\ rpc = "route"
    /\ rpacket.kind = att_value
    /\ rpacket.atthandle \in DOMAIN rcallbacks

\* C2: routing an attribute value whose handle is in the receiver's copy of
\* the registry leaves the receive queue as it is and starts exactly one
\* callback thread, of the callback registered for the handle, on the value;
\* and whatever is put on the queue is not such a packet.
C2_NotificationDispatchedNotQueued ==
    [][/\ (RoutesNotification /\ rpc' # rpc) =>
            /\ recvr_queue' = recvr_queue
            /\ Len(callback_threads') = Len(callback_threads) + 1
            /\ SubSeq(callback_threads', 1, Len(callback_threads))
                 = callback_threads
            /\ Last(callback_threads').target = rcallbacks[rpacket.atthandle]
            /\ Last(callback_threads').args = rpacket.value
       /\ Len(recvr_queue') > Len(recvr_queue) => ~RoutesNotification]_vars

\* C2 witness: a notification has been dispatched to the callback that
\* subscribe registered for its handle.
C2_Witness ==
    /\ Len(callback_threads) = 1
    /\ callback_threads[1].target = "on_notify"
    /\ callback_threads[1].args = "v1"
    /\ rpacket = Tagged(EvtAttributeValue(1, "v1"), callback_threads[1].seq)
    /\ rpc = "read"
    /\ \A i \in 1..Len(recvr_queue) : recvr_queue[i].seq # rpacket.seq

\* where each packet completed so far is, by its seq
Whereabouts ==
    [i \in 1..Len(recvr_queue) |-> recvr_queue[i].seq]
    \o [i \in 1..Len(handled) |-> handled[i].packet.seq]
    \o [i \in 1..Len(callback_threads) |-> callback_threads[i].seq]
    \o (IF rpc = "read" THEN <<>> ELSE <<rpacket.seq>>)

\* C3: every packet the receiver has completed is in exactly one place: still
\* with the receiver, on the queue, popped and handled by one wait, or
\* dispatched to one callback thread.
C3_EachPacketRoutedOnce ==
    /\ Len(Whereabouts) = nrecv
    /\ {Whereabouts[i] : i \in 1..Len(Whereabouts)} = 1..nrecv

\* C3 witness: of four packets one was dispatched, two were handled by waits
\* and one is queued.
C3_Witness ==
    /\ nrecv = 4
    /\ Len(callback_threads) = 1
    /\ Len(handled) = 2
    /\ Len(recvr_queue) = 1

\* C4: routing an attribute value whose handle is not in the receiver's copy
\* of the registry starts no callback thread and puts the packet on the queue,
\* whatever the registry holds by then; and a callback thread is only ever
\* started for a packet whose handle is in the copy.
C4_NoCallbackForUnregisteredHandle ==
    [][/\ (/\ rpc = "route" /\ rpc' # rpc
           /\ rpacket.kind = att_value
           /\ rpacket.atthandle \notin DOMAIN rcallbacks) =>
            /\ callback_threads' = callback_threads
            /\ recvr_queue' = Append(recvr_queue, rpacket)
       /\ callback_threads' # callback_threads => RoutesNotification]_vars

\* C4 witness: an attribute value was queued although a callback had been
\* registered for its handle after the receiver copied the registry.
C4_Witness ==
    /\ rpc = "read"
    /\ rpacket.kind = att_value
    /\ rpacket.atthandle \notin DOMAIN rcallbacks
    /\ rpacket.atthandle \in DOMAIN callbacks
    /\ recvr_queue # <<>>
    /\ Last(recvr_queue) = rpacket
    /\ callback_threads = <<>>

\* the log of the packets the current operation popped in its k-th wait
OpHandled(k) == SelectSeq(handled, LAMBDA e : e.n = ncalls /\ e.k = k)

\* the log of the packets the current operation popped
OpHandledAll == SelectSeq(handled, LAMBDA e : e.n = ncalls)

\* the error kinds the operations raise by design
DesignedErrors ==
    {"NotConnectedError", "AlreadyConnected", "BGAPIError",
     "NotImplementedError"}

\* C5: an operation is running, has returned normally, or has raised one of
\* the designed error kinds; nothing else, such as an exception of a packet
\* handler run inside a wait, reaches the caller.
C5_OnlyDesignedErrors ==
    outcome \in {"none", "running", "ok"} \cup DesignedErrors

\* C6: a call of bond, encrypt, discover_attributes, attribute_read,
\* attribute_write or get_rssi made while connected is false raises
\* NotConnectedError at once, has sent no command, and leaves the driver's
\* state, the callback registry and the receive queue as they were.
C6_NotConnectedRaisesBeforeSending ==
    [][(/\ ncalls' = ncalls + 1
        /\ call'.op \in NeedConnection
        /\ ~st.connected) =>
            /\ outcome' = "NotConnectedError"
            /\ pc' = Idle
            /\ sent' = <<>>
            /\ st' = st
            /\ callbacks' = callbacks
            /\ recvr_queue' = recvr_queue]_vars

\* C6 witness: discover_attributes, called again after the connection was
\* lost during a discovery that had found a service, has raised
\* NotConnectedError without sending and without popping a packet, and the
\* services found are still there.
C6_Witness ==
    /\ ncalls = 2
    /\ call.op = "discover_attributes"
    /\ outcome = "NotConnectedError"
    /\ sent = <<>>
    /\ OpHandledAll = <<>>
    /\ ~st.connected
    /\ st.services # <<>>

\* C7: a call of connect made while connected is true raises
\* AlreadyConnected and sends no connect-direct command.
C7_ConnectRefusedWhenConnected ==
    [][(/\ ncalls' = ncalls + 1
        /\ call'.op = "connect"
        /\ st.connected) =>
            /\ outcome' = "AlreadyConnected"
            /\ sent' = <<>>]_vars

\* no connection status event has arrived: none was popped, is queued or is
\* with the receiver
NoStatusArrived ==
    /\ \A i \in 1..Len(handled) :
          handled[i].packet.kind # "ble_evt_connection_status"
    /\ \A i \in 1..Len(recvr_queue) :
          recvr_queue[i].kind # "ble_evt_connection_status"
    /\ rpacket.kind # "ble_evt_connection_status"

\* C8: connect, past a connect-direct response of result zero and with no
\* connection status event arriving, is never in its event wait later than
\* timeout plus one polling interval after the wait began, and when it has
\* ended it has raised NotConnectedError, no earlier than timeout after the
\* wait began.
C8_ConnectTimesOut ==
    (/\ call.op = "connect"
     /\ returned = 1
     /\ Last(OpHandled(1)).packet.result = 0
     /\ NoStatusArrived) =>
        /\ elapsed <= call.timeout + PollInterval
        /\ pc.at = "idle" =>
              /\ outcome = "NotConnectedError"
              /\ elapsed >= call.timeout

\* C9: disconnect with fail_quietly set never raises; past a disconnect
\* response of nonzero result it has returned without a second wait, and past
\* one of result zero it returns only on the disconnected event.
C9_QuietDisconnectNeverRaises ==
    (call.op = "disconnect" /\ call.fail_quietly) =>
        /\ outcome \in {"running", "ok"}
        /\ (returned >= 1 /\ Last(OpHandled(1)).packet.result # 0) =>
              (outcome = "ok" /\ returned = 1 /\ OpHandled(2) = <<>>)
        /\ (outcome = "ok" /\ Last(OpHandled(1)).packet.result = 0) =>
              (returned = 2 /\ Last(OpHandled(2)).packet.kind = Disconnected)

\* the values of the get-RSSI responses the current operation popped
RssiResponses ==
    LET r == SelectSeq(OpHandledAll,
                       LAMBDA e : e.packet.kind = "ble_rsp_connection_get_rssi")
    IN [i \in 1..Len(r) |-> r[i].packet.rssi]

\* C10: get_rssi on a connection that is up has sent at most 3 commands, one
\* per response popped and one more while it waits; a response other than 25
\* is the last one popped, and get_rssi has returned its value; and it has
\* raised BGAPIError exactly if it popped 3 responses, all of them 25.
C10_RssiThreeAttempts ==
    (call.op = "get_rssi" /\ st.connected) =>
        LET R == RssiResponses IN
        /\ Len(sent) <= 3
        /\ Len(R) <= Len(sent)
        /\ Len(sent) <= Len(R) + 1
        /\ \A i \in 1..Len(R) :
              R[i] # 25 => /\ i = Len(R)
                           /\ outcome = "ok"
                           /\ ret = PyInt(R[i])
                           /\ Len(sent) = i
        /\ outcome = "ok" => (R # <<>> /\ Last(R) # 25)
        /\ outcome = "BGAPIError" <=>
              (Len(R) = 3 /\ \A i \in 1..3 : R[i] = 25)

\* C10 witness: get_rssi has raised BGAPIError after three commands and three
\* responses of 25.
C10_Witness ==
    /\ call.op = "get_rssi"
    /\ st.connected
    /\ outcome = "BGAPIError"
    /\ Len(sent) = 3
    /\ RssiResponses = <<25, 25, 25>>

\* the three kinds of event attribute_read's second wait accepts
ReadEvents ==
    {"ble_evt_attclient_attribute_value",
     "ble_evt_attclient_procedure_completed", Disconnected}

\* C11: attribute_read, past a read-by-handle response of result zero, is in
\* its second wait until that wait pops an attribute value, procedure
\* completed or disconnected event; and when the wait has popped one, it is
\* the only one it popped, and attribute_read has raised BGAPIError for
\* procedure completed, returned the bytes of the event for an attribute
\* value, and raised NotConnectedError for disconnected.
C11_ReadDecidedByFirstEvent ==
    (/\ call.op = "attribute_read"
     /\ returned >= 1
     /\ Last(OpHandled(1)).packet.kind = "ble_rsp_attclient_read_by_handle"
     /\ Last(OpHandled(1)).packet.result = 0) =>
        LET w == OpHandled(2)
            decided == {i \in 1..Len(w) : w[i].packet.kind \in ReadEvents}
        IN /\ decided \subseteq {Len(w)}
           /\ (decided # {}) <=> (returned = 2)
           /\ decided # {} =>
                LET e == w[Len(w)].packet IN
                /\ e.kind = "ble_evt_attclient_procedure_completed" =>
                      outcome = "BGAPIError"
                /\ e.kind = "ble_evt_attclient_attribute_value" =>
                      (outcome = "ok" /\ ret = PyBytes(e.value))
                /\ e.kind = Disconnected => outcome = "NotConnectedError"

\* C11 witness: attribute_read has returned the value of the attribute value
\* event of its second wait, not the one its first wait had popped before
\* the response.
C11_Witness ==
    /\ call.op = "attribute_read"
    /\ outcome = "ok"
    /\ ret = PyBytes("v1")
    /\ Len(OpHandled(1)) = 2
    /\ OpHandled(1)[1].packet.kind = "ble_evt_attclient_attribute_value"
    /\ OpHandled(1)[1].packet.value = "v2"
    /\ Len(OpHandled(2)) = 1

\* C12: attribute_write has returned normally only past two waits, the first
\* ended by an attribute-write response of result 0 and the second by a
\* procedure completed event of result 0, having popped no disconnected
\* event; past a response of nonzero result it has raised BGAPIError without
\* a second wait; and past a procedure completed event of nonzero result it
\* has raised BGAPIError.
C12_WriteOkOnlyOnZeroResults ==
    call.op = "attribute_write" =>
        /\ outcome = "ok" =>
              /\ returned = 2
              /\ Last(OpHandled(1)).packet.kind
                    = "ble_rsp_attclient_attribute_write"
              /\ Last(OpHandled(1)).packet.result = 0
              /\ Last(OpHandled(2)).packet.kind
                    = "ble_evt_attclient_procedure_completed"
              /\ Last(OpHandled(2)).packet.result = 0
              /\ \A i \in 1..Len(OpHandledAll) :
                    OpHandledAll[i].packet.kind # Disconnected
        /\ (/\ returned >= 1
            /\ Last(OpHandled(1)).packet.kind
                  = "ble_rsp_attclient_attribute_write"
            /\ Last(OpHandled(1)).packet.result # 0) =>
              (outcome = "BGAPIError" /\ returned = 1 /\ OpHandled(2) = <<>>)
        /\ (/\ returned = 2
            /\ Last(OpHandled(2)).packet.kind
                  = "ble_evt_attclient_procedure_completed"
            /\ Last(OpHandled(2)).packet.result # 0) =>
              outcome = "BGAPIError"

\* C12 witness: attribute_write has returned normally although its first wait
\* had popped a procedure completed event of nonzero result before the
\* response.
C12_Witness ==
    /\ call.op = "attribute_write"
    /\ outcome = "ok"
    /\ Len(OpHandled(1)) = 2
    /\ OpHandled(1)[1].packet.kind = "ble_evt_attclient_procedure_completed"
    /\ OpHandled(1)[1].packet.result = 1

\* C13: when bond has returned normally, bonded is true.
C13_BondReturnsBonded ==
    (call.op = "bond" /\ outcome = "ok") => st.bonded

\* the bond handles of the bond status events the current list_bonds popped
\* in its event waits
BondEvents ==
    LET w == OpHandled(2) IN [i \in 1..Len(w) |-> w[i].packet.bond]

\* C14: list_bonds, past a get-bonds response reporting N bonds that the
\* response wait popped before any bond status event, and having then popped
\* N bond status events and nothing else, has returned the handles of those
\* N events in their order; with N = 0 it has returned the empty list
\* without an event wait.
C14_ListBondsReturnsTheBonds ==
    (/\ call.op = "list_bonds"
     /\ returned >= 1
     /\ \A i \in 1..Len(OpHandled(1)) :
           OpHandled(1)[i].packet.kind # "ble_evt_sm_bond_status"
     /\ \A i \in 1..Len(OpHandled(2)) :
           OpHandled(2)[i].packet.kind = "ble_evt_sm_bond_status"
     /\ Len(OpHandled(2)) = Last(OpHandled(1)).packet.bonds) =>
        /\ outcome = "ok"
        /\ ret = PyList(BondEvents)

\* the current operation's attribute write of the configuration descriptor
\* has completed successfully: the command was sent to the descriptor, the
\* response and the procedure completed event that ended its two waits
\* carried result 0
CccdWriteSucceeded ==
    /\ returned = 2
    /\ Len(sent) = 1
    /\ sent[1].cmd = "ble_cmd_attclient_attribute_write"
    /\ sent[1].atthandle = FindCccd(call.characteristic).handle
    /\ Last(OpHandled(1)).packet.kind = "ble_rsp_attclient_attribute_write"
    /\ Last(OpHandled(1)).packet.result = 0
    /\ Last(OpHandled(2)).packet.kind = "ble_evt_attclient_procedure_completed"
    /\ Last(OpHandled(2)).packet.result = 0

\* C15: the callback registry changes only in a subscribe call given a
\* callback, after its write of the configuration descriptor has completed
\* successfully, and then by mapping the characteristic's handle to the
\* callback; a step in which an operation raises leaves the registry as it
\* is, and once subscribe has changed the registry it does not raise.
C15_RegistryOnlyAfterSuccessfulWrite ==
    [][/\ callbacks' # callbacks =>
            /\ call.op = "subscribe"
            /\ call.callback # None
            /\ HasCccd(call.characteristic)
            /\ CccdWriteSucceeded
            /\ DOMAIN callbacks'
                 = DOMAIN callbacks \cup {call.characteristic.handle}
            /\ callbacks'[call.characteristic.handle] = call.callback
            /\ \A h \in DOMAIN callbacks :
                  h # call.characteristic.handle => callbacks'[h] = callbacks[h]
            /\ outcome' = "running"
       /\ outcome' \notin {"none", "running", "ok"} => callbacks' = callbacks
       /\ pc.at = "release" => outcome' \in {"running", "ok"}]_vars

\* C15 witness: a subscribe call that raised has left the registry as an
\* earlier, successful subscribe made it.
C15_Witness ==
    /\ ncalls = 2
    /\ call.op = "subscribe"
    /\ outcome = "NotImplementedError"
    /\ DOMAIN callbacks = {1}
    /\ callbacks[1] = "on_notify"

\* C16: a subscribe call with indications requested raises
\* NotImplementedError, and one for a characteristic without a client
\* characteristic configuration descriptor raises BGAPIError, in both cases
\* at once: no command has been sent and the registry is as it was.
C16_SubscribeRefusals ==
    [][(ncalls' = ncalls + 1 /\ call'.op = "subscribe") =>
        /\ call'.indications =>
              /\ outcome' = "NotImplementedError"
              /\ pc' = Idle /\ sent' = <<>> /\ callbacks' = callbacks
        /\ (~call'.indications /\ ~HasCccd(call'.characteristic)) =>
              /\ outcome' = "BGAPIError"
              /\ pc' = Idle /\ sent' = <<>> /\ callbacks' = callbacks]_vars

\* seq2 is seq1 with one element appended, and that element is x
Appended(seq1, seq2, x) ==
    /\ Len(seq2) = Len(seq1) + 1
    /\ SubSeq(seq2, 1, Len(seq1)) = seq1
    /\ seq2[Len(seq2)] = x

\* the services before the last are unchanged, between services S1 and S2
SameButLast(S1, S2) ==
    /\ Len(S2) = Len(S1)
    /\ \A i \in 1..(Len(S1) - 1) : S2[i] = S1[i]

\* the step handles one find-information-found event as C17 says
DiscoveryStep ==
    LET p == Last(handled').packet
        S1 == st.services
        S2 == st'.services
    IN
    /\ p.uuid \in {"primary_service", "secondary_service"} =>
          /\ Len(S2) = Len(S1) + 1
          /\ SubSeq(S2, 1, Len(S1)) = S1
          /\ Last(S2).handle = p.chrhandle
          /\ Last(S2).uuid = p.uuid
          /\ Last(S2).characteristics = <<>>
    /\ (p.uuid = "characteristic" /\ S1 # <<>>) =>
          /\ SameButLast(S1, S2)
          /\ Last(S2).handle = Last(S1).handle
          /\ Len(Last(S2).characteristics) = Len(Last(S1).characteristics) + 1
          /\ SubSeq(Last(S2).characteristics, 1, Len(Last(S1).characteristics))
               = Last(S1).characteristics
          /\ Last(Last(S2).characteristics).handle = p.chrhandle
          /\ Last(Last(S2).characteristics).descriptors = <<>>
    /\ (p.uuid \in UuidDescriptorType /\ HasLastCharacteristic(st)) =>
          /\ SameButLast(S1, S2)
          /\ Last(S2).handle = Last(S1).handle
          /\ SameButLast(Last(S1).characteristics, Last(S2).characteristics)
          /\ Last(Last(S2).characteristics).handle
               = Last(Last(S1).characteristics).handle
          /\ Appended(Last(Last(S1).characteristics).descriptors,
                      Last(Last(S2).characteristics).descriptors,
                      Descriptor(p.chrhandle, p.uuid, p.uuid))

\* the uuids of the events handled so far
HandledUuids == [i \in 1..Len(handled) |-> handled[i].packet.uuid]

\* the accumulator holds 2 services, each with 1 characteristic owning 1
\* descriptor, with the handles 1..6 in arrival order
TwoServicesOfOne ==
    /\ Len(st.services) = 2
    /\ \A i \in 1..2 :
          /\ st.services[i].handle = 3 * i - 2
          /\ Len(st.services[i].characteristics) = 1
          /\ st.services[i].characteristics[1].handle = 3 * i - 1
          /\ Len(st.services[i].characteristics[1].descriptors) = 1
          /\ st.services[i].characteristics[1].descriptors[1].handle = 3 * i

ServiceCharacteristicDescriptor ==
    <<"primary_service", "characteristic",
      "client_characteristic_configuration">>

\* C17: from the empty accumulator, each find-information-found event of a
\* service UUID appends a new service, each of the characteristic UUID
\* appends a new characteristic to the last service, and each of a
\* descriptor UUID appends a descriptor to the last characteristic of the
\* last service; and after the events {primary service, characteristic,
\* descriptor} twice the accumulator holds 2 services, each with 1
\* characteristic owning 1 descriptor, in arrival order.
C17_DiscoveryAccumulates ==
    /\ [](HandledUuids
            = ServiceCharacteristicDescriptor \o ServiceCharacteristicDescriptor
          => TwoServicesOfOne)
    /\ [][Len(handled') = Len(handled) + 1 => DiscoveryStep]_vars

\* C17 witness: the events {primary service, characteristic, descriptor}
\* were handled twice and the accumulator holds the two services.
C17_Witness ==
    /\ HandledUuids
         = ServiceCharacteristicDescriptor \o ServiceCharacteristicDescriptor
    /\ TwoServicesOfOne
    /\ outcome = "none"

\* the step handed a scan-response event to its handler, which returned
ScanStep ==
    /\ Len(handled') = Len(handled) + 1
    /\ Last(handled').packet.kind = "ble_evt_gap_scan_response"
    /\ outcome' = "none"

\* a field map is stored for packet kind t of the device at address a
HasFields(s, a, t) ==
    /\ a \in DOMAIN s.devices_discovered
    /\ t \in DOMAIN s.devices_discovered[a].packet_data

\* that field map
StoredFields(s, a, t) == s.devices_discovered[a].packet_data[t]

\* C18: when a scan-response event is handled, the packet_data stored for
\* its sender address and packet kind becomes the event's field map if that
\* kind was not stored for the address before or the event has strictly more
\* parsed fields than the stored map, and stays the stored map if the event
\* has fewer or equally many fields.
C18_MoreFieldsReplace ==
    [][ScanStep =>
         LET p == Last(handled').packet
             a == Reverse(p.sender)
             t == PacketTypeName(p.packet_type)
             new == _scan_rsp_data(p.data).data_dict
         IN
         /\ HasFields(st', a, t)
         /\ StoredFields(st', a, t)
              = IF ~HasFields(st, a, t) THEN new
                ELSE IF DictLen(new) > DictLen(StoredFields(st, a, t)) THEN new
                ELSE StoredFields(st, a, t)]_vars

\* the events handled so far: sender, packet kind and data of each
ScansHandled ==
    [i \in 1..Len(handled) |->
        <<handled[i].packet.sender, handled[i].packet.packet_type,
          handled[i].packet.data>>]

\* C18 witness: one sender sent three advertisements with 1, 3 and 2 fields;
\* the 3-field map replaced the first and was kept against the third.
C18_Witness ==
    /\ ScansHandled
         = << <<(<<1, 2, 3, 4, 5, 6>>), 0, (<<2, 1, 6>>)>>,
              <<(<<1, 2, 3, 4, 5, 6>>), 0, (<<2, 1, 6, 3, 9, 65, 66, 2, 10, 4>>)>>,
              <<(<<1, 2, 3, 4, 5, 6>>), 0, (<<2, 8, 67, 2, 10, 4>>)>> >>
    /\ outcome = "none"
    /\ HasFields(st, <<6, 5, 4, 3, 2, 1>>, "connectable_advertisement_packet")
    /\ StoredFields(st, <<6, 5, 4, 3, 2, 1>>, "connectable_advertisement_packet")
         = _scan_rsp_data(<<2, 1, 6, 3, 9, 65, 66, 2, 10, 4>>).data_dict
    /\ DictLen(StoredFields(st, <<6, 5, 4, 3, 2, 1>>,
                            "connectable_advertisement_packet")) = 3

\* the names _scan_rsp_data returned for the events of address a handled so
\* far, in arrival order
RECURSIVE NamesParsed(_, _)
NamesParsed(a, n) ==
    IF n = 0 THEN <<>>
    ELSE LET p == handled[n].packet
             r == _scan_rsp_data(p.data)
         IN
         IF Reverse(p.sender) = a /\ r.exc = "none"
         THEN Append(NamesParsed(a, n - 1), r.dev_name)
         ELSE NamesParsed(a, n - 1)

\* the first non-empty name of a sequence of names, '' when there is none
FirstNonEmpty(names) ==
    LET nonempty == SelectSeq(names, LAMBDA x : x # <<>>) IN
    IF nonempty = <<>> THEN <<>> ELSE nonempty[1]

\* C19: a discovered device's name, once non-empty, is never changed by a
\* later scan-response event, and is always the first non-empty name parsed
\* from the scan responses of its address.
C19_FirstNameWins ==
    /\ [](\A a \in DOMAIN st.devices_discovered :
            st.devices_discovered[a].name
              = FirstNonEmpty(NamesParsed(a, Len(handled))))
    /\ [][\A a \in DOMAIN st.devices_discovered :
            st.devices_discovered[a].name # <<>>
            => /\ a \in DOMAIN st'.devices_discovered
               /\ st'.devices_discovered[a].name
                    = st.devices_discovered[a].name]_vars

\* C19 witness: an address advertised no name, then "AB", then "C"; the
\* device is named "AB".
C19_Witness ==
    /\ NamesParsed(<<1, 2, 3, 4, 5, 6>>, Len(handled))
         = << <<>>, <<65, 66>>, <<67>> >>
    /\ <<1, 2, 3, 4, 5, 6>> \in DOMAIN st.devices_discovered
    /\ st.devices_discovered[<<1, 2, 3, 4, 5, 6>>].name = <<65, 66>>

\* C20: when the disconnected event's handler has run, connected, encrypted
\* and bonded are false and the last event result is the event's reason
\* code, whatever they were before.
C20_DisconnectedClearsFlags ==
    [][(/\ Len(handled') = Len(handled) + 1
        /\ Last(handled').packet.kind = "ble_evt_connection_disconnected")
       => /\ ~st'.connected
          /\ ~st'.encrypted
          /\ ~st'.bonded
          /\ st'.event_return = Last(handled').packet.reason]_vars

\* the kinds of the events handled so far
HandledKinds == [i \in 1..Len(handled) |-> handled[i].packet.kind]

\* C20 witness: a connection became encrypted and bonded (the bond status
\* was the awaited one, no stored bond was listed), bonding then failed with
\* 774, and a locally initiated disconnect left the three flags false and
\* the last event result 0.
C20_Witness ==
    /\ HandledKinds = <<"ble_evt_connection_status", "ble_evt_sm_bond_status",
                        "ble_evt_sm_bonding_fail",
                        "ble_evt_connection_disconnected">>
    /\ Last(handled).packet.reason = 0
    /\ st.stored_bonds = <<>>
    /\ ~st.connected /\ ~st.encrypted /\ ~st.bonded
    /\ st.event_return = 0

\* the step handed an event of the given kind to its handler
HandlerStep(kind) ==
    /\ Len(handled') = Len(handled) + 1
    /\ Last(handled').packet.kind = kind

\* C26: when the connection-status handler has run on an event, connected
\* is true if and only if the connected bit is set in the event's flags,
\* encrypted is true if and only if the encrypted bit is set, and the
\* connection handle is the event's connection field.
C26_StatusDecodesFlags ==
    [][HandlerStep("ble_evt_connection_status")
       => LET p == Last(handled').packet IN
          /\ st'.connected = (BitAnd(p.flags, FlagConnected) = FlagConnected)
          /\ st'.encrypted = (BitAnd(p.flags, FlagEncrypted) = FlagEncrypted)
          /\ st'.connection_handle = p.connection]_vars

\* C27: the bond-status handler, when bond_expected is true, sets bonded,
\* clears bond_expected and leaves the stored bond list unchanged; when
\* bond_expected is false it appends the event's bond handle to the stored
\* bond list and leaves bonded and bond_expected unchanged.
C27_BondStatusOneOfTwo ==
    [][HandlerStep("ble_evt_sm_bond_status")
       => IF st.bond_expected
          THEN /\ st'.bonded
               /\ ~st'.bond_expected
               /\ st'.stored_bonds = st.stored_bonds
          ELSE /\ st'.stored_bonds
                    = Append(st.stored_bonds, Last(handled').packet.bond)
               /\ st'.bonded = st.bonded
               /\ ~st'.bond_expected]_vars

\* C27 witness: two bond-status events were handled while a bond was
\* expected: the first set bonded, the second was listed.
C27_Witness ==
    /\ HandledKinds = <<"ble_evt_sm_bond_status", "ble_evt_sm_bond_status">>
    /\ st.bonded
    /\ ~st.bond_expected
    /\ st.stored_bonds = <<1>>

\* C28: when a wait of bond, encrypt, discover_attributes, attribute_read,
\* attribute_write or get_rssi handles a disconnected event, the wait
\* returns on it and the operation ends with NotConnectedError, having sent
\* no further command and returned no value.
C28_DisconnectedEndsOperation ==
    [][(/\ InWait
        /\ call.op \in NeedConnection
        /\ HandlerStep(Disconnected))
       => /\ returned' = returned + 1
          /\ pc' = Idle
          /\ outcome' = "NotConnectedError"
          /\ sent' = sent
          /\ ret' = PyNone]_vars

\* C28 witness: encrypt lost the connection in its third wait, past both
\* responses, and raised NotConnectedError with its two commands sent.
C28_Witness ==
    /\ call.op = "encrypt"
    /\ returned = 3
    /\ Last(OpHandled(3)).packet.kind = Disconnected
    /\ outcome = "NotConnectedError"
    /\ Len(sent) = 2
    /\ ~st.connected

\* C29: when encrypt returns normally, connected and encrypted are true; and
\* when the connection status event that ends its third wait leaves
\* encrypted false, encrypt raises BGAPIError.
C29_EncryptReturnsEncrypted ==
    [][/\ (call'.op = "encrypt" /\ outcome # "ok" /\ outcome' = "ok")
          => (st'.connected /\ st'.encrypted)
       /\ (/\ InWait
           /\ call.op = "encrypt"
           /\ pc.k = 3
           /\ HandlerStep("ble_evt_connection_status")
           /\ ~st'.encrypted)
          => outcome' = "BGAPIError"]_vars

\* C29 witness: encrypt returned normally on a status event with the
\* encrypted flag, after an earlier status event without it had been handled
\* by one of its response waits.
C29_Witness ==
    /\ call.op = "encrypt"
    /\ ncalls = 1
    /\ outcome = "ok"
    /\ returned = 3
    /\ \E i \in 1..Len(handled) :
          /\ handled[i].k < 3
          /\ handled[i].packet.kind = "ble_evt_connection_status"
          /\ handled[i].packet.flags = FlagConnected
    /\ Last(OpHandled(3)).packet.flags = FlagConnected + FlagEncrypted
    /\ st.connected /\ st.encrypted

\* C22: subscribe's insert into the registry and the receiver's copy of it
\* never happen at once; the lock is held by the caller exactly while it is
\* at its insert (until its release) and by the receiver exactly while it is
\* at its copy (until its release), and by nobody else: so the receiver
\* holds no lock when it reads the transport, enqueues a packet or starts a
\* callback thread, and no callback thread ever holds it.
C22_LockOnlyAroundInsertAndCopy ==
    /\ ~(pc.at = "insert" /\ rpc = "copy")
    /\ lock \in {"free", "caller", "recvr"}
    /\ (lock = "caller") <=> (pc.at \in {"insert", "release"})
    /\ (lock = "recvr") <=> (rpc \in {"copy", "release"})
    /\ rpc \in {"read", "route"} => lock # "recvr"

\* C22 witness: the receiver has completed a packet and waits for the lock
\* while the caller, holding it, is at its insert.
C22_Witness ==
    /\ rpc = "acquire"
    /\ pc.at = "insert"
    /\ lock = "caller"

\* C23: every notification is given a callback thread of its own, and while
\* a callback has not returned every step of the receiver that does not
\* wait for the lock can be taken (it reads, copies, releases and routes),
\* the lock is granted to it when free, and a wait of the caller whose queue
\* holds a packet can pop it.
C23_CallbacksDoNotBlock ==
    /\ \A i, j \in 1..Len(callback_threads) :
          callback_threads[i].seq = callback_threads[j].seq => i = j
    /\ Running # {} =>
          /\ rpc \in {"read", "acquire", "copy", "release", "route"}
          /\ (rpc = "read" /\ nrecv < MaxPackets)
                => ENABLED (\E p \in ThreadPackets : _recv_packets_read(p))
          /\ (rpc = "acquire" /\ lock = "free") => ENABLED _recv_packets_acquire
          /\ rpc = "copy" => ENABLED _recv_packets_copy
          /\ rpc = "release" => ENABLED _recv_packets_release
          /\ rpc = "route" => ENABLED _recv_packets_route
          /\ (InWait /\ recvr_queue # <<>>) => ENABLED _process_packets_until

\* C23 witness: while the callback of a notification has not returned, the
\* receiver has completed a later packet and the read the caller waits in
\* has popped it.
C23_Witness ==
    /\ \E i \in Running :
          /\ callback_threads[i].seq < nrecv
          /\ handled # <<>>
          /\ Last(handled).packet.seq > callback_threads[i].seq
    /\ call.op = "attribute_read"

\* the state C24 speaks of: the connection state, the result registers, the
\* discovery accumulator, the discovered devices and the bonds
SharedState(s) ==
    [connected |-> s.connected, encrypted |-> s.encrypted,
     bonded |-> s.bonded, bond_expected |-> s.bond_expected,
     bonding_fail |-> s.bonding_fail,
     connection_handle |-> s.connection_handle,
     response_return |-> s.response_return, event_return |-> s.event_return,
     services |-> s.services, devices_discovered |-> s.devices_discovered,
     num_bonds |-> s.num_bonds, stored_bonds |-> s.stored_bonds]

\* C24: a step of the receiver, the start of a callback thread included, and
\* a step of a callback thread leave the connection state, the result
\* registers, the discovery accumulator, the discovered devices and the
\* bonds as they are; they change only in a step of the caller that starts
\* an operation or runs a handler in a wait.
C24_ReceiverLeavesStateAlone ==
    [][/\ (rpc' # rpc \/ callbacks_returned' # callbacks_returned
           \/ callback_threads' # callback_threads)
          => SharedState(st') = SharedState(st)
       /\ SharedState(st') # SharedState(st)
          => (/\ rpc' = rpc
              /\ \/ ncalls' = ncalls + 1
                 \/ (InWait /\ Len(handled') = Len(handled) + 1))]_vars

\* C24 witness: the receiver has read four packets, queued three and started
\* a callback thread that has returned, and the state is as the last handler
\* in the caller's wait left it.
C24_Witness ==
    /\ nrecv = 4
    /\ rpc = "read"
    /\ Len(callback_threads) = 1
    /\ Running = {}
    /\ Len(handled) = 2
    /\ Len(recvr_queue) = 1
    /\ SharedState(st) = SharedState(ConnectedState)

\* C21: stop() closes the transport only when the stop event is set and the
\* receiver has set its done event, and the receiver is never in a read of
\* the transport unless the transport is open.
C21_CloseAfterReceiverDone ==
    /\ [](rpc = "ser_read" => ser = "open")
    /\ [][(ser # "closed" /\ ser' = "closed")
          => (recvr_thread_stop /\ recvr_thread_is_done /\ rpc = "stopped")]_vars

\* C21 witness: a backend was started, its receiver read the responses, and
\* stop() has returned with the transport released and the thread ended.
C21_Witness ==
    /\ ncalls = 2
    /\ call.op = "stop"
    /\ outcome = "ok"
    /\ ser = "None"
    /\ rpc = "stopped"
    /\ nrecv = 4
    /\ Len(sent) = 0
    /\ Len(handled) = 4

\* the receiver thread is in its loop
InLoop == rpc \notin {"unstarted", "is_done", "stopped"}

\* C30: when stop() has set the stop event while the receiver thread is in
\* its loop, the thread eventually leaves the loop and sets the done event,
\* and stop() eventually returns; and the done event is never set while the
\* thread is in its loop.
C30_StopTerminates ==
    /\ [](recvr_thread_is_done => ~InLoop)
    /\ (pc.at = "is_done_wait" /\ InLoop)
          ~> (rpc = "stopped" /\ recvr_thread_is_done)
    /\ (pc.at = "is_done_wait" /\ InLoop)
          ~> (call.op = "stop" /\ pc = Idle /\ outcome = "ok")

\* C30 witness: stop() returned after it had set the stop event while the
\* receiver held a packet it had just completed.
C30_Witness ==
    /\ call.op = "stop"
    /\ outcome = "ok"
    /\ rpc = "stopped"
    /\ recvr_thread_is_done
    /\ recvr_queue # <<>>
    /\ Last(recvr_queue).seq = nrecv
    /\ handled = <<>>

\* C25: the bytes of one encoded packet, read from the line one at a time
\* (reads that time out between them or not), give no packet for every byte
\* but the last, each byte being kept in the buffer, and on the last byte
\* exactly one packet, whose type and args are those of the packet encoded;
\* the buffer and the bytes still on the line always make up the encoded
\* packet, and a read that gives no byte leaves the buffer as it is
C25_CodecRoundTrip ==
    /\ [](ser_in # <<>> => lib_buffer \o ser_in = encode_packet(original))
    /\ [][(ser_in # <<>> /\ ser_in' = Tail(ser_in))
          => IF Len(ser_in) > 1
             THEN /\ nrecv' = nrecv
                  /\ rpc' = "read"
                  /\ lib_buffer' = Append(lib_buffer, Head(ser_in))
             ELSE /\ nrecv' = nrecv + 1
                  /\ rpc' = "acquire"
                  /\ rpacket' = Tagged(original, nrecv + 1)
                  /\ lib_buffer' = <<>>]_vars
    /\ [][(rpc = "ser_read" /\ ser_in' = ser_in)
          => lib_buffer' = lib_buffer]_vars

\* a second packet, with a byte array in it, has gone through the line a
\* byte at a time and has been decoded
C25_Witness ==
    /\ nrecv = 2
    /\ original = EvtAttributeValue(1, <<7, 9>>)
    /\ rpacket = Tagged(original, 2)
    /\ rpc = "acquire"
    /\ lib_buffer = <<>>
    /\ ser_in = <<>>

\* C31: in every reachable state encrypted implies connected and bonded
\* implies connected: neither flag is true while connected is false.
C31_FlagsImplyConnected ==
    /\ st.encrypted => st.connected
    /\ st.bonded => st.connected

\* C32: when attribute_read has returned a value, the value is that of an
\* attribute value event whose attribute handle is the handle of the
\* attribute that was asked for.
C32_ReadReturnsRequestedHandle ==
    (call.op = "attribute_read" /\ outcome = "ok") =>
        LET e == Last(OpHandled(2)).packet
        IN /\ e.kind = att_value
           /\ e.atthandle = call.attribute.handle
           /\ ret = PyBytes(e.value)

\* attribute_read of an attribute whose handle has a registered callback is
\* in its event wait, past a response of result 0, and the receiver has
\* completed an attribute value event for that handle after the response
ReadAnswered ==
    IF call.op = "attribute_read" /\ pc = AtWait(2) /\ rpacket.kind = att_value
    THEN /\ call.attribute.handle \in DOMAIN callbacks
         /\ Last(OpHandled(1)).packet.kind = "ble_rsp_attclient_read_by_handle"
         /\ Last(OpHandled(1)).packet.result = 0
         /\ rpacket.atthandle = call.attribute.handle
         /\ rpacket.seq > Last(OpHandled(1)).packet.seq
    ELSE FALSE

\* C33: attribute_read of an attribute whose handle has a registered
\* callback, answered with a response of result 0 and then an attribute
\* value event for that handle, eventually returns the event's value.
C33_SubscribedReadReturns ==
    ReadAnswered ~>
        (call.op = "attribute_read" /\ outcome = "ok" /\ ret = PyBytes("v1"))

\* C34: attribute_read that has returned normally has returned a byte value,
\* never None; and when its second wait returns with the connection intact,
\* exactly one of attribute_value_received and procedure_completed is set,
\* and attribute_read returns the bytes or raises BGAPIError accordingly.
C34_ReadReturnsBytes ==
    /\ []((call.op = "attribute_read" /\ outcome = "ok")
             => (ret # PyNone /\ ret.type = "bytearray"))
    /\ [][(call.op = "attribute_read" /\ pc = AtWait(2) /\ returned' = 2)
          => LET h == _packet_handlers(st, Head(recvr_queue)).s
             IN h.connected =>
                  /\ h.attribute_value_received # h.procedure_completed
                  /\ h.attribute_value_received
                        => (outcome' = "ok"
                            /\ ret' = PyBytes(h.attribute_value))
                  /\ h.procedure_completed => outcome' = "BGAPIError"]_vars

\* C34 witness: attribute_read has returned the bytes of the one event its
\* second wait popped, straight after the response
C34_Witness ==
    /\ call.op = "attribute_read"
    /\ outcome = "ok"
    /\ returned = 2
    /\ ret = PyBytes("v2")
    /\ Len(OpHandled(1)) = 1
    /\ Len(OpHandled(2)) = 1
    /\ ~st.attribute_value_received
    /\ ~st.procedure_completed

\* C35: when connect has returned normally, connected is true.
C35_ConnectReturnsConnected ==
    (call.op = "connect" /\ outcome = "ok") => st.connected

\* C36: when connect raises NotConnectedError, connected is false at that
\* moment.
C36_ConnectRaisesUnconnected ==
    [][(call.op = "connect" /\ outcome = "running"
        /\ outcome' = "NotConnectedError") => ~st'.connected]_vars

\* the addresses of the scan responses the current operation's waits popped
ScannedNow ==
    {Reverse(OpHandledAll[i].packet.sender) :
        i \in {j \in 1..Len(OpHandledAll) :
                  OpHandledAll[j].packet.kind = "ble_evt_gap_scan_response"}}

\* C37: the map a scan call has returned holds only devices of scan
\* responses handled during that call: no entry of an earlier scan.
C37_ScanReturnsOwnDevices ==
    (call.op = "scan" /\ outcome = "ok") =>
        /\ ret.type = "dict"
        /\ DOMAIN ret.v \subseteq ScannedNow

\* C38: bond_expected is false whenever no bond() call is in progress; and
\* so every bond status event handled during list_bonds is appended to the
\* stored bond list.
C38_BondExpectedOnlyInBond ==
    /\ []((call.op # "bond" \/ pc = Idle) => ~st.bond_expected)
    /\ [][(HandlerStep("ble_evt_sm_bond_status") /\ call.op = "list_bonds")
          => st'.stored_bonds
                = Append(st.stored_bonds, Last(handled').packet.bond)]_vars

\* C39: a wait of an operation returns only on a packet that was enqueued
\* after the operation was called and sent its command, never on one that
\* the queue already held.
C39_WaitsTakeOnlyFreshPackets ==
    [][(InWait /\ returned' = returned + 1)
       => Last(handled').packet.seq \notin at_call.queued]_vars

\* C40: disconnect that has returned after a disconnect response of result 0
\* leaves connected, encrypted and bonded false; disconnect(fail_quietly=True)
\* that has returned after a response of nonzero result leaves the three
\* flags as they were when it was called.
C40_DisconnectFlags ==
    (call.op = "disconnect" /\ outcome = "ok") =>
        IF Last(OpHandled(1)).packet.result = 0
        THEN ~st.connected /\ ~st.encrypted /\ ~st.bonded
        ELSE /\ call.fail_quietly
             /\ st.connected = at_call.connected
             /\ st.encrypted = at_call.encrypted
             /\ st.bonded = at_call.bonded

=============================================================================
